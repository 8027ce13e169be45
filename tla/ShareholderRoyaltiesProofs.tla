--------------------- MODULE ShareholderRoyaltiesProofs ---------------------
(***************************************************************************)
(* Theorems about ShareholderRoyalties, for every value of the constants:  *)
(*   - the buckets partition the balance (Part 1);                         *)
(*   - the eviction watermark covers every decaying lock (Part 2);         *)
(*   - the rewards reconstructed from two cumulative indices and a history *)
(*     of checkpoints are those earned flush by flush (Parts 3 to 7);      *)
(*   - the indexed ETH covers them, but for the dust of flushes (Part 8).  *)
(*                                                                         *)
(* The reconstruction is proved in layers.  Part 3 is about where the      *)
(* array and the wrapped ring keep the history's entries; Parts 4 and 5    *)
(* know only sequences: how storing a checkpoint carries the entries of a  *)
(* history h into the next one, g (Shift), that it stays in order, and     *)
(* what that does to the credit of a single lock.  Part 6 brings both to   *)
(* the contract's state, and Part 7 adds up the locks of a user.           *)
(***************************************************************************)
EXTENDS ShareholderRoyalties, SumTheorems, SequenceTheorems

-----------------------------------------------------------------------------
(* Part 1: the buckets.                                                    *)

(* The inductive invariant: the identity, and as much typing as keeps its  *)
(* terms numbers.                                                          *)
BucketsInv ==
  /\ pendingShareholderETH \in Int /\ indexedEthOwed \in Int
  /\ totalCrystallisedStored \in Int /\ ethBalance \in Int /\ ethSurplus \in Int
  /\ claimableEthStored \in [Users -> Int] /\ userRewardRemainder \in [Users -> Int]
  /\ BucketsPartitionBalance

LEMMA TotalIsSum == \A f, S : Total(f, S) = Sum(f, S)
BY Zenon DEF Total, Sum

LEMMA TotalChanges ==
  ASSUME NEW f \in [Users -> Int], NEW u \in Users, NEW x \in Int
  PROVE  Total([f EXCEPT ![u] = x], Users) = Total(f, Users) - f[u] + x
<1> DEFINE g == [f EXCEPT ![u] = x]
<1>1. /\ IsFiniteSet(Users) /\ g[u] = x /\ g[u] \in Int
      /\ \A v \in Users : f[v] \in Int
      /\ \A v \in Users \ {u} : g[v] = f[v]
  BY VeLocksAssumption
<1> HIDE DEF g
<1>2. Sum(g, Users) = Sum(f, Users) - f[u] + g[u]
  BY <1>1, SumChanges
<1>3. Sum(g, Users) = Sum(f, Users) - f[u] + x
  BY <1>1, <1>2
<1> QED
  BY <1>3, TotalIsSum DEF g

(* A flush of pending, whether it indexes or defers, conserves what is     *)
(* pending and indexed together.                                           *)
LEMMA FlushConserves ==
  ASSUME BucketsInv, NEW pending \in Int, NEW bypass \in BOOLEAN,
         flushPending(pending, bypass)
  PROVE  /\ pendingShareholderETH' \in Int /\ indexedEthOwed' \in Int
         /\ pendingShareholderETH' + indexedEthOwed' = pending + indexedEthOwed
<1> USE RoyaltiesAssumption
<1>1. PICK drift \in Drifts, fresh \in Freshness :
        IF CanIndex(pending, LiveWeight + drift, bypass, fresh)
        THEN Index(pending, LiveWeight + drift)
        ELSE /\ pendingShareholderETH' = pending
             /\ UNCHANGED <<indexVars, indexedEthOwed, earned>>
  BY Zenon DEF flushPending
<1> DEFINE weight == LiveWeight + drift
           delta == (pending * SHAREHOLDER_ACC) \div weight
           distributed == (delta * weight) \div SHAREHOLDER_ACC
<1>2. CASE CanIndex(pending, weight, bypass, fresh)
  <2>1. weight \in Nat \ {0}
    BY <1>2 DEF CanIndex
  <2>2. /\ pendingShareholderETH' = pending - distributed
        /\ indexedEthOwed' = indexedEthOwed + distributed
    BY <1>1, <1>2 DEF Index
  <2> HIDE DEF weight
  <2>3. delta \in Int
    BY <2>1
  <2> HIDE DEF delta
  <2>4. distributed \in Int
    BY <2>1, <2>3
  <2> HIDE DEF distributed
  <2> QED
    BY <2>2, <2>4 DEF BucketsInv
<1>3. CASE ~ CanIndex(pending, weight, bypass, fresh)
  BY <1>1, <1>3 DEF BucketsInv
<1> QED
  BY <1>2, <1>3

(* What a checkpoint credits leaves the indexed bucket for the crystallised *)
(* one; the payout leaves the crystallised one and the balance.             *)
LEMMA CrystalliseConserves ==
  ASSUME BucketsInv, NEW u \in Users, NEW payout, payout \in {0, Entitled(u)},
         Crystallise(u, payout)
  PROVE  BucketsInv'
<1> USE RoyaltiesAssumption
<1> DEFINE accrued == computePendingAccrual(u)
<1>1. accrued \in Nat
  BY DEF Crystallise
<1>2. /\ userRewardRemainder[u] \in Int /\ claimableEthStored[u] \in Int
  BY DEF BucketsInv
<1>3. WholeAccrued(u) \in Int
  <2> HIDE DEF accrued
  <2> QED BY <1>1, <1>2 DEF WholeAccrued, accrued
<1>4. Credit(u) \in Int
  BY <1>3 DEF Credit, BucketsInv
<1>5. Entitled(u) \in Int /\ payout \in Int
  BY <1>2, <1>4 DEF Entitled
<1>6. userRewardRemainder' \in [Users -> Int]
  <2>1. (userRewardRemainder[u] + accrued) % SHAREHOLDER_ACC \in Int
    <3> HIDE DEF accrued
    <3> QED BY <1>1, <1>2
  <2> QED
    BY <2>1 DEF Crystallise, BucketsInv
<1>7. claimableEthStored' \in [Users -> Int]
  BY <1>5 DEF Crystallise, BucketsInv
<1>8. /\ indexedEthOwed' = indexedEthOwed - Credit(u)
      /\ totalCrystallisedStored' = totalCrystallisedStored + Credit(u) - payout
      /\ ethBalance' = ethBalance - payout
      /\ UNCHANGED <<pendingShareholderETH, ethSurplus>>
  BY DEF Crystallise, CrystallisedAfter
<1>9. totalCrystallisedStored' = Total(claimableEthStored', Users)
  <2>1. claimableEthStored' = [claimableEthStored EXCEPT ![u] = Entitled(u) - payout]
    BY DEF Crystallise
  <2>2. Entitled(u) - payout \in Int /\ Entitled(u) = claimableEthStored[u] + Credit(u)
    BY <1>5 DEF Entitled
  <2>3. Total(claimableEthStored', Users)
          = Total(claimableEthStored, Users) - claimableEthStored[u] + (Entitled(u) - payout)
    BY <2>1, <2>2, TotalChanges DEF BucketsInv
  <2>4. totalCrystallisedStored = Total(claimableEthStored, Users) /\ totalCrystallisedStored \in Int
    BY DEF BucketsInv, BucketsPartitionBalance
  <2> QED
    BY <1>2, <1>4, <1>5, <1>8, <2>2, <2>3, <2>4
<1>10. ethBalance' = pendingShareholderETH' + indexedEthOwed' + totalCrystallisedStored' + ethSurplus'
  BY <1>4, <1>5, <1>8 DEF BucketsInv, BucketsPartitionBalance
<1>11. /\ pendingShareholderETH' \in Int /\ indexedEthOwed' \in Int
       /\ totalCrystallisedStored' \in Int /\ ethBalance' \in Int /\ ethSurplus' \in Int
  BY <1>4, <1>5, <1>8 DEF BucketsInv
<1> QED
  BY <1>6, <1>7, <1>9, <1>10, <1>11 DEF BucketsInv, BucketsPartitionBalance

(* Every step keeps the identity: takeovers and flushes by FlushConserves,  *)
(* whatever checkpoints a user by CrystalliseConserves.                     *)
LEMMA BucketsInductive == BucketsInv /\ [Next]_vars => BucketsInv'
<1> SUFFICES ASSUME BucketsInv, [Next]_vars PROVE BucketsInv'
  OBVIOUS
<1> USE DEF bucketVars, indexVars, userVars, observedVars, counters
<1>1. ASSUME NEW v \in Allocations, OnTakeover(v) PROVE BucketsInv'
  <2>1. v \in Nat /\ pendingShareholderETH + v \in Int
    BY <1>1, RoyaltiesAssumption DEF BucketsInv
  <2>2. flushPending(pendingShareholderETH + v, TRUE)
    BY <1>1 DEF OnTakeover
  <2>3. /\ pendingShareholderETH' \in Int /\ indexedEthOwed' \in Int
        /\ pendingShareholderETH' + indexedEthOwed' = pendingShareholderETH + v + indexedEthOwed
    BY <2>1, <2>2, FlushConserves
  <2>4. /\ ethBalance' = ethBalance + v
        /\ UNCHANGED <<totalCrystallisedStored, claimableEthStored, ethSurplus, userRewardRemainder>>
    BY <1>1 DEF OnTakeover, Unpaid
  <2>5. BucketsPartitionBalance'
    <3>1. ethBalance + v = pendingShareholderETH + v + indexedEthOwed + totalCrystallisedStored + ethSurplus
      BY <2>1 DEF BucketsInv, BucketsPartitionBalance
    <3>2. ethBalance' = pendingShareholderETH' + indexedEthOwed' + totalCrystallisedStored + ethSurplus
      BY <2>3, <2>4, <3>1
    <3>3. totalCrystallisedStored' = Total(claimableEthStored', Users)
      BY <2>4 DEF BucketsInv, BucketsPartitionBalance
    <3> QED
      BY <2>4, <3>2, <3>3 DEF BucketsPartitionBalance
  <2>6. ethBalance' \in Int
    BY <2>1, <2>4 DEF BucketsInv
  <2> QED
    BY <2>3, <2>4, <2>5, <2>6 DEF BucketsInv
<1>2. ASSUME FlushPendingShareholderETH PROVE BucketsInv'
  <2>1. flushPending(pendingShareholderETH, FALSE) /\ pendingShareholderETH \in Int
    BY <1>2 DEF FlushPendingShareholderETH, BucketsInv
  <2>2. /\ pendingShareholderETH' \in Int /\ indexedEthOwed' \in Int
        /\ pendingShareholderETH' + indexedEthOwed' = pendingShareholderETH + indexedEthOwed
    BY <2>1, FlushConserves
  <2>3. UNCHANGED <<ethBalance, totalCrystallisedStored, claimableEthStored, ethSurplus, userRewardRemainder>>
    BY <1>2 DEF FlushPendingShareholderETH, Unpaid
  <2> QED
    BY <2>2, <2>3 DEF BucketsInv, BucketsPartitionBalance
<1>3. ASSUME NEW u \in Users, CheckpointUser(u) \/ EnterFurnace(u) \/ ChangeLock(u) \/ LeaveLock(u)
      PROVE  BucketsInv'
  <2>1. Crystallise(u, 0)
    BY <1>3 DEF CheckpointUser, EnterFurnace, ChangeLock, LeaveLock, AroundLockChange
  <2> QED
    BY <2>1, CrystalliseConserves
<1>4. ASSUME NEW u \in Users, Claim(u) \/ ClaimToLock(u) PROVE BucketsInv'
  <2>1. Crystallise(u, Entitled(u))
    BY <1>4 DEF Claim, ClaimToLock, AroundLockChange
  <2> QED
    BY <2>1, CrystalliseConserves
<1>5. ASSUME NEW v \in ForcedEth, ForceEth(v) PROVE BucketsInv'
  BY <1>5, RoyaltiesAssumption DEF ForceEth, BucketsInv, BucketsPartitionBalance
<1>6. ASSUME SweepDust PROVE BucketsInv'
  <2>1. UNCHANGED <<pendingShareholderETH, indexedEthOwed, totalCrystallisedStored,
                    claimableEthStored, userRewardRemainder>>
    BY <1>6 DEF SweepDust
  <2>2. /\ ethBalance' = pendingShareholderETH + indexedEthOwed + totalCrystallisedStored + ethSurplus'
        /\ ethBalance' \in Int /\ ethSurplus' \in Int
    <3> DEFINE owed == pendingShareholderETH + indexedEthOwed + totalCrystallisedStored
    <3>1. owed \in Int /\ ethSurplus \in Int /\ ethBalance = owed + ethSurplus
      BY DEF BucketsInv, BucketsPartitionBalance
    <3>2. ethBalance' = ethBalance - (ethBalance - owed) /\ ethSurplus' = ethSurplus - (ethBalance - owed)
      BY <1>6 DEF SweepDust
    <3> HIDE DEF owed
    <3>3. ethBalance' = owed /\ ethSurplus' = 0
      BY <3>1, <3>2
    <3>4. ethBalance' = owed + ethSurplus' /\ ethBalance' \in Int /\ ethSurplus' \in Int
      BY <3>1, <3>3
    <3> QED
      BY <3>4 DEF owed
  <2>3. BucketsPartitionBalance'
    BY <2>1, <2>2 DEF BucketsInv, BucketsPartitionBalance
  <2> QED
    BY <2>1, <2>2, <2>3 DEF BucketsInv
<1>7. ASSUME UNCHANGED <<bucketVars, userVars, ethSurplus>> PROVE BucketsInv'
  BY <1>7 DEF BucketsInv, BucketsPartitionBalance
<1>8. ASSUME NEW u \in Users, PinUserObservedMin(u) PROVE BucketsInv'
  BY <1>7, <1>8 DEF PinUserObservedMin
<1>9. ASSUME NEW c \in SUBSET Users, NEW e \in BOOLEAN, RecomputeGlobalWatermark(c, e) PROVE BucketsInv'
  BY <1>7, <1>9 DEF RecomputeGlobalWatermark
<1>10. ASSUME NEW e \in Raises, ForceSetOldestObserved(e) PROVE BucketsInv'
  BY <1>7, <1>10 DEF ForceSetOldestObserved
<1>11. ASSUME Tick \/ UNCHANGED vars PROVE BucketsInv'
  BY <1>7, <1>11 DEF Tick, vars
<1> QED
  BY <1>1, <1>2, <1>3, <1>4, <1>5, <1>6, <1>8, <1>9, <1>10, <1>11 DEF Next

LEMMA BucketsInitially == Init => BucketsInv
<1>1. \A u \in Users : Zero[u] = 0
  BY DEF Zero
<1>2. Total(Zero, Users) = 0
  BY <1>1, SumOfZeroes, TotalIsSum, VeLocksAssumption
<1>3. Zero \in [Users -> Int]
  BY DEF Zero
<1> QED
  BY <1>2, <1>3 DEF Init, BucketsInv, BucketsPartitionBalance

(* The three buckets of ShareholderRoyalties and the ETH forced upon it    *)
(* always add up to its balance: a takeover, flush, clamped checkpoint,    *)
(* claim, claim into a lock or sweep moves each wei from one to exactly    *)
(* one other place.                                                        *)
THEOREM RoyaltiesPartitioned == Spec => []BucketsPartitionBalance
<1>1. BucketsInv => BucketsPartitionBalance
  BY DEF BucketsInv
<1> QED
  BY <1>1, BucketsInitially, BucketsInductive, PTL DEF Spec

-----------------------------------------------------------------------------
(* Part 2: the watermark.                                                  *)

(* A non-empty set of naturals has a minimum. *)
LEMMA MinOfNaturals ==
  ASSUME NEW S \in SUBSET Nat, S # {}
  PROVE  Min(S) \in S /\ \A y \in S : Min(S) <= y
<1> DEFINE less == {ss \in Nat \X Nat : ss[1] < ss[2]}
<1>1. IsWellFoundedOn(less, Nat)
  <2>1. less = OpToRel(<, Nat)
    BY Zenon DEF OpToRel
  <2> QED
    BY <2>1, NatLessThanWellFounded
<1>2. \A x, y \in Nat : y < x => <<y, x>> \in less
  OBVIOUS
<1> HIDE DEF less
<1>3. PICK x \in S : \A y \in S : ~ (<<y, x>> \in less)
  BY <1>1, WFMin, Zenon
<1>4. ASSUME NEW y \in S PROVE x <= y
  <2>1. x \in Nat /\ y \in Nat
    OBVIOUS
  <2>2. ~ (y < x)
    BY <1>2, <1>3, <2>1, Zenon
  <2> QED
    BY <2>1, <2>2
<1> QED
  BY <1>4 DEF Min

(* What is observed of a user is at or below each of its decaying ends. *)
LEMMA ObservedMinCovers ==
  ASSUME NEW table \in [Tokens -> Lock \cup {NoLock}], NEW u \in Users
  PROVE  /\ ObservedMin(table, u) \in Nat
         /\ ObservedMin(table, u) <= UINT40_MAX
         /\ \A t \in Tokens : IsDecaying(table[t]) /\ table[t].owner = u
                                => ObservedMin(table, u) <= table[t].lockEnd
<1> DEFINE own  == {x \in Tokens : IsDecaying(table[x]) /\ table[x].owner = u}
           ends == {UINT40_MAX} \cup {table[t].lockEnd : t \in own}
<1>1. ends \in SUBSET Nat /\ ends # {}
  BY RoyaltiesAssumption DEF IsDecaying, Lock
<1>2. Min(ends) \in ends /\ \A y \in ends : Min(ends) <= y
  <2> HIDE DEF ends
  <2> QED BY <1>1, MinOfNaturals
<1>3. ObservedMin(table, u) = Min(ends)
  BY DEF ObservedMin
<1>4. UINT40_MAX \in ends
  OBVIOUS
<1>5. ASSUME NEW t \in Tokens, IsDecaying(table[t]), table[t].owner = u
      PROVE  table[t].lockEnd \in ends
  BY <1>5
<1> HIDE DEF ends
<1> QED
  BY <1>1, <1>2, <1>3, <1>4, <1>5

(* The inductive invariant of the watermark. *)
WatermarkInv ==
  /\ LocksTypeOK
  /\ oldestObserved \in Nat
  /\ WatermarkCoversLocks

(* A step of u's locks leaves well-formed locks, and those of others alone. *)
LockStep(u) ==
  /\ locks' \in [Tokens -> Lock \cup {NoLock}]
  /\ \A t \in Tokens :
       \/ locks'[t] = locks[t]
       \/ /\ locks[t] # NoLock => locks[t].owner = u
          /\ locks'[t] # NoLock => locks'[t].owner = u

(* Entering the Furnace is a step of the user's own locks. *)
LEMMA EntryIsLockStep ==
  ASSUME LocksTypeOK, NEW u \in Users, FurnaceEntry(u)
  PROVE  LockStep(u)
<1> USE VeLocksAssumption
<1>1. ASSUME NEW t \in Tokens, NEW a \in LockAmounts, NEW autoMax \in BOOLEAN,
             NEW d \in MIN_LOCK_DURATION .. MAX_LOCK_DURATION, CreateLock(u, t, a, d, autoMax)
      PROVE  LockStep(u)
  <2> DEFINE new == [owner |-> u, amount |-> a, autoMax |-> autoMax,
                     lockEnd |-> IF autoMax THEN 0 ELSE now + d]
  <2>1. new \in Lock /\ new.owner = u
    BY DEF Lock, LocksTypeOK
  <2>2. locks' = [locks EXCEPT ![t] = new] /\ locks[t] = NoLock
    BY <1>1 DEF CreateLock
  <2> HIDE DEF new
  <2> QED
    BY <2>1, <2>2, VeLocksAssumption DEF LockStep, LocksTypeOK, Lock
<1>2. ASSUME NEW t \in Held(u), NEW a \in TopUps, AddToLock(t, a)
      PROVE  LockStep(u)
  <2>1. t \in Tokens /\ locks[t] \in Lock /\ locks[t].owner = u
    BY DEF Held, LocksTypeOK
  <2> DEFINE new == [locks[t] EXCEPT !.amount = @ + a]
  <2>2. new \in Lock /\ new.owner = u
    BY <2>1 DEF Lock
  <2>3. locks' = [locks EXCEPT ![t] = new]
    BY <1>2 DEF AddToLock
  <2> HIDE DEF new
  <2> QED
    BY <2>1, <2>2, <2>3 DEF LockStep, LocksTypeOK, Lock
<1> QED
  BY <1>1, <1>2 DEF FurnaceEntry

(* So is extending, switching or merging them ... *)
LEMMA ChangeIsLockStep ==
  ASSUME LocksTypeOK, NEW u \in Users, ChangeLock(u)
  PROVE  LockStep(u)
<1> USE VeLocksAssumption
<1>1. \A t \in Held(u) : t \in Tokens /\ locks[t] \in Lock /\ locks[t].owner = u
  BY DEF Held, LocksTypeOK
<1>2. ASSUME NEW t \in Held(u), NEW new \in Lock, new.owner = u,
             \/ locks' = [locks EXCEPT ![t] = new]
             \/ \E from \in Held(u) : locks' = [locks EXCEPT ![from] = NoLock, ![t] = new]
      PROVE  LockStep(u)
  BY <1>1, <1>2 DEF LockStep, LocksTypeOK, Lock
<1>3. ASSUME NEW t \in Held(u), NEW e \in 0 .. MaxTime + MAX_LOCK_DURATION, ExtendLock(t, e)
      PROVE  LockStep(u)
  <2> DEFINE new == [locks[t] EXCEPT !.lockEnd = e]
  <2>1. e \in Nat
    BY RoyaltiesAssumption
  <2>2. new \in Lock /\ new.owner = u
    BY <1>1, <2>1 DEF Lock
  <2>3. locks' = [locks EXCEPT ![t] = new]
    BY <1>3 DEF ExtendLock
  <2> QED
    BY <1>2, <2>2, <2>3
<1>4. ASSUME NEW t \in Held(u), NEW enabled \in BOOLEAN, SetAutoMax(t, enabled)
      PROVE  LockStep(u)
  <2> DEFINE end == IF enabled THEN 0 ELSE now + MAX_LOCK_DURATION
             new == [locks[t] EXCEPT !.autoMax = enabled, !.lockEnd = end]
  <2>1. locks' = [locks EXCEPT ![t] = new]
    BY <1>1, <1>4 DEF SetAutoMax, Lock, LocksTypeOK
  <2>2. end \in Nat
    BY DEF LocksTypeOK
  <2> HIDE DEF end
  <2>3. new \in Lock /\ new.owner = u
    BY <1>1, <2>2 DEF Lock
  <2> QED
    BY <1>2, <2>1, <2>3
<1>5. ASSUME NEW from \in Held(u), NEW into \in Held(u), MergeLocks(from, into)
      PROVE  LockStep(u)
  <2> DEFINE auto == locks[from].autoMax \/ locks[into].autoMax
             new == [owner   |-> locks[into].owner,
                     amount  |-> locks[from].amount + locks[into].amount,
                     autoMax |-> auto,
                     lockEnd |-> CASE auto -> 0
                                   [] ~ auto /\ locks[into].lockEnd >= locks[from].lockEnd
                                        -> locks[into].lockEnd
                                   [] ~ auto /\ locks[into].lockEnd < locks[from].lockEnd
                                        -> locks[from].lockEnd]
  <2>1. new \in Lock /\ new.owner = u
    BY <1>1 DEF Lock
  <2>2. locks' = [locks EXCEPT ![from] = NoLock, ![into] = new]
    BY <1>5 DEF MergeLocks
  <2> HIDE DEF new
  <2> QED
    BY <1>1, <1>2, <2>1, <2>2
<1> QED
  BY <1>3, <1>4, <1>5 DEF ChangeLock

(* ... and unlocking or selling one. *)
LEMMA LeaveIsLockStep ==
  ASSUME LocksTypeOK, NEW u \in Users, LeaveLock(u)
  PROVE  LockStep(u)
<1>1. PICK t \in Held(u) : Unlock(t) \/ SellLock(t)
  BY DEF LeaveLock
<1> QED
  BY <1>1 DEF Unlock, SellLock, LockStep, LocksTypeOK, Held

(* Observing the locks a user is left with restores the cover, whatever the *)
(* step did to that user's locks.                                           *)
LEMMA ObservationCovers ==
  ASSUME WatermarkInv, NEW u \in Users, LockStep(u), ObserveAfterChange(u), UNCHANGED now
  PROVE  WatermarkInv'
<1> DEFINE mark == ObservedByCheckpoint(u)
<1>1. mark \in Nat /\ mark <= oldestObserved
  BY ObservedMinCovers DEF ObservedByCheckpoint, Narrowed, WatermarkInv, LocksTypeOK
<1>2. LocksTypeOK'
  BY DEF WatermarkInv, LocksTypeOK, LockStep
<1>3. /\ ObservedMin(locks', u) \in Nat
      /\ \A t \in Tokens : IsDecaying(locks'[t]) /\ locks'[t].owner = u
                             => ObservedMin(locks', u) <= locks'[t].lockEnd
  <2>1. locks' \in [Tokens -> Lock \cup {NoLock}]
    BY DEF LockStep
  <2> QED
    BY <2>1, ObservedMinCovers
<1> HIDE DEF mark
<1>4. /\ oldestObserved' \in Nat
      /\ oldestObserved' <= oldestObserved
      /\ oldestObserved' <= ObservedMin(locks', u)
  BY <1>1, <1>3 DEF ObserveAfterChange, Narrowed, WatermarkInv, mark
<1>5. ASSUME NEW t \in Tokens, IsDecaying(locks'[t])
      PROVE  oldestObserved' <= locks'[t].lockEnd
  <2>1. locks'[t].lockEnd \in Nat
    BY <1>2, <1>5 DEF LocksTypeOK, IsDecaying, Lock
  <2>2. CASE locks'[t] = locks[t]
    BY <1>4, <1>5, <2>1, <2>2 DEF WatermarkInv, WatermarkCoversLocks
  <2>3. CASE locks'[t].owner = u
    BY <1>3, <1>4, <1>5, <2>1, <2>3
  <2> QED
    BY <1>5, <2>2, <2>3 DEF LockStep, IsDecaying
<1> QED
  BY <1>2, <1>4, <1>5 DEF WatermarkInv, WatermarkCoversLocks

(* Where the locks stay as they are, a watermark that does not rise covers  *)
(* them still.                                                              *)
LEMMA LoweringCovers ==
  ASSUME WatermarkInv, UNCHANGED locks, now' \in Nat,
         oldestObserved' \in Nat, oldestObserved' <= oldestObserved
  PROVE  WatermarkInv'
<1>1. ASSUME NEW t \in Tokens, IsDecaying(locks[t]) PROVE locks[t].lockEnd \in Nat
  BY <1>1 DEF WatermarkInv, LocksTypeOK, IsDecaying, Lock
<1> QED
  BY <1>1 DEF WatermarkInv, LocksTypeOK, WatermarkCoversLocks

(* Every step keeps the cover: lock steps by what is observed after them,   *)
(* the owner's raises by what they are raised to, all others by lowering.   *)
LEMMA WatermarkInductive == WatermarkInv /\ [Next]_vars => WatermarkInv'
<1> SUFFICES ASSUME WatermarkInv, [Next]_vars PROVE WatermarkInv'
  OBVIOUS
<1> USE DEF bucketVars, indexVars, userVars, observedVars, counters
<1>1. now \in Nat /\ now + 1 \in Nat /\ oldestObserved \in Nat
  BY DEF WatermarkInv, LocksTypeOK
<1>2. \A u \in Users : /\ ObservedMin(locks, u) \in Nat
                       /\ ObservedMin(locks, u) <= UINT40_MAX
                       /\ \A t \in Tokens : IsDecaying(locks[t]) /\ locks[t].owner = u
                                              => ObservedMin(locks, u) <= locks[t].lockEnd
  BY ObservedMinCovers DEF WatermarkInv, LocksTypeOK
<1>3. ASSUME UNCHANGED <<locks, oldestObserved>>, now' \in Nat PROVE WatermarkInv'
  BY <1>1, <1>3, LoweringCovers
<1>4. ASSUME NEW v \in Allocations, OnTakeover(v) PROVE WatermarkInv'
  BY <1>1, <1>3, <1>4 DEF OnTakeover
<1>5. ASSUME FlushPendingShareholderETH PROVE WatermarkInv'
  BY <1>1, <1>3, <1>5 DEF FlushPendingShareholderETH
<1>6. ASSUME NEW v \in ForcedEth, ForceEth(v) PROVE WatermarkInv'
  BY <1>1, <1>3, <1>6 DEF ForceEth
<1>7. ASSUME SweepDust PROVE WatermarkInv'
  BY <1>1, <1>3, <1>7 DEF SweepDust
<1>8. ASSUME Tick PROVE WatermarkInv'
  BY <1>1, <1>3, <1>8 DEF Tick
<1>9. ASSUME NEW u \in Users, CheckpointUser(u) \/ Claim(u) PROVE WatermarkInv'
  <2>1. /\ UNCHANGED <<now, locks>>
        /\ oldestObserved' = ObservedByCheckpoint(u)
    BY <1>9 DEF CheckpointUser, Claim, ObserveAtCheckpoint
  <2>2. ObservedByCheckpoint(u) \in Nat /\ ObservedByCheckpoint(u) <= oldestObserved
    BY <1>1, <1>2 DEF ObservedByCheckpoint, Narrowed
  <2> QED
    BY <1>1, <2>1, <2>2, LoweringCovers
<1>10. ASSUME NEW u \in Users, PinUserObservedMin(u) PROVE WatermarkInv'
  <2>1. /\ UNCHANGED <<now, locks>>
        /\ oldestObserved' \in Nat /\ oldestObserved' <= oldestObserved
    BY <1>1, <1>2, <1>10 DEF PinUserObservedMin, Narrowed
  <2> QED
    BY <1>1, <2>1, LoweringCovers
<1>11. ASSUME NEW u \in Users, EnterFurnace(u) \/ ClaimToLock(u) \/ ChangeLock(u) \/ LeaveLock(u)
       PROVE  WatermarkInv'
  <2>1. LockStep(u)
    BY <1>11, EntryIsLockStep, ChangeIsLockStep, LeaveIsLockStep
       DEF WatermarkInv, EnterFurnace, ClaimToLock
  <2>2. ObserveAfterChange(u) /\ UNCHANGED now
    BY <1>11 DEF EnterFurnace, ClaimToLock, ChangeLock, LeaveLock, AroundLockChange
  <2> QED
    BY <2>1, <2>2, ObservationCovers
<1>12. ASSUME NEW candidates \in SUBSET Users, NEW exhaustive \in BOOLEAN,
              RecomputeGlobalWatermark(candidates, exhaustive)
       PROVE  WatermarkInv'
  <2> DEFINE mins   == {UINT40_MAX} \cup {ObservedMin(locks, u) : u \in candidates}
             lowest == Min(mins)
  <2>1. lowest \in Nat /\ \A y \in mins : lowest <= y
    <3>1. mins \in SUBSET Nat /\ mins # {}
      BY <1>2, RoyaltiesAssumption
    <3> HIDE DEF mins
    <3> QED
      BY <3>1, MinOfNaturals
  <2>2. /\ UNCHANGED <<now, locks>>
        /\ oldestObserved' \in {lowest, oldestObserved}
        /\ \A u \in Users \ candidates : ObservedMin(locks, u) = UINT40_MAX
    BY <1>12 DEF RecomputeGlobalWatermark
  <2>3. \A u \in Users : ObservedMin(locks, u) \in mins
    BY <2>2
  <2>4. ASSUME NEW t \in Tokens, IsDecaying(locks[t]) PROVE lowest <= locks[t].lockEnd
    <3>1. locks[t].owner \in Users /\ locks[t].lockEnd \in Nat
      BY <2>4 DEF WatermarkInv, LocksTypeOK, IsDecaying, Lock
    <3>2. ObservedMin(locks, locks[t].owner) <= locks[t].lockEnd
      BY <1>2, <2>4, <3>1
    <3>3. lowest <= ObservedMin(locks, locks[t].owner)
      BY <2>1, <2>3, <3>1
    <3> HIDE DEF lowest
    <3> QED
      BY <1>2, <2>1, <3>1, <3>2, <3>3
  <2> HIDE DEF lowest
  <2> QED
    BY <1>1, <2>1, <2>2, <2>4 DEF WatermarkInv, LocksTypeOK, WatermarkCoversLocks
<1>13. ASSUME NEW end \in Raises, ForceSetOldestObserved(end) PROVE WatermarkInv'
  <2>1. /\ UNCHANGED <<now, locks>> /\ oldestObserved' = end /\ end \in Nat
        /\ \A u \in Users : end <= ObservedMin(locks, u)
    BY <1>13, RoyaltiesAssumption DEF ForceSetOldestObserved
  <2>2. ASSUME NEW t \in Tokens, IsDecaying(locks[t]) PROVE end <= locks[t].lockEnd
    <3>1. locks[t].owner \in Users /\ locks[t].lockEnd \in Nat
      BY <2>2 DEF WatermarkInv, LocksTypeOK, IsDecaying, Lock
    <3>2. ObservedMin(locks, locks[t].owner) <= locks[t].lockEnd
      BY <1>2, <2>2, <3>1
    <3> QED
      BY <1>2, <2>1, <3>1, <3>2
  <2> QED
    BY <1>1, <2>1, <2>2 DEF WatermarkInv, LocksTypeOK, WatermarkCoversLocks
<1>14. ASSUME UNCHANGED vars PROVE WatermarkInv'
  BY <1>1, <1>3, <1>14 DEF vars
<1> QED
  BY <1>4, <1>5, <1>6, <1>7, <1>8, <1>9, <1>10, <1>11, <1>12, <1>13, <1>14 DEF Next

(* The eviction watermark of ShareholderRoyalties is at or below the end of *)
(* every decaying lock held, for any number of users and locks: whatever    *)
(* mutator made the lock what it is, and however the owner raised the       *)
(* watermark within its documented use.                                     *)
THEOREM WatermarkCovered == Spec => []WatermarkCoversLocks
<1>1. Init => WatermarkInv
  BY RoyaltiesAssumption
     DEF Init, WatermarkInv, LocksTypeOK, WatermarkCoversLocks, IsDecaying
<1>2. WatermarkInv => WatermarkCoversLocks
  BY DEF WatermarkInv
<1> QED
  BY <1>1, <1>2, WatermarkInductive, PTL DEF Spec

-----------------------------------------------------------------------------
(* Part 3: the history of checkpoints.                                     *)

(* The history counted from nothing: before the first checkpoint the       *)
(* indices were zero, and that is what the code looks up.                  *)
Zeroth == [timestamp |-> 0, ethPerVe |-> 0, timeWeighted |-> 0]
At(h, k) == IF k = 0 THEN Zeroth ELSE h[k]

(* An array a, and after it a ring o whose oldest entry is behind d.       *)
WellStored(a, o, d) ==
  /\ a \in Seq(Checkpoint) /\ o \in Seq(Checkpoint)
  /\ Len(a) <= MAX_REWARD_CHECKPOINTS /\ Len(o) <= MAX_OVERFLOW_CHECKPOINTS
  /\ d \in 0 .. MAX_OVERFLOW_CHECKPOINTS - 1
  /\ d # 0 => Len(o) = MAX_OVERFLOW_CHECKPOINTS
  /\ o # <<>> => Len(a) = MAX_REWARD_CHECKPOINTS
Unrolled(o, d) == [k \in DOMAIN o |-> o[((k - 1 + d) % Len(o)) + 1]]
InOrder(a, o, d) == a \o Unrolled(o, d)

RingInv == WellStored(rewardCheckpoints, overflowCheckpoints, overflowRingHead)

LEMMA HistoryIs ==
  /\ RingHistory = Unrolled(overflowCheckpoints, overflowRingHead)
  /\ RingHistory' = Unrolled(overflowCheckpoints', overflowRingHead')
  /\ History = InOrder(rewardCheckpoints, overflowCheckpoints, overflowRingHead)
  /\ History' = InOrder(rewardCheckpoints', overflowCheckpoints', overflowRingHead')
BY Zenon DEF History, RingHistory, InOrder, Unrolled

(* One turn around a ring. *)
LEMMA Around ==
  ASSUME NEW n \in Nat \ {0}, NEW i \in 0 .. n - 1, NEW d \in 0 .. n - 1
  PROVE  (i + d) % n = IF i + d < n THEN i + d ELSE i + d - n
<1>1. CASE i + d < n
  BY <1>1
<1>2. CASE i + d >= n
  <2>1. i + d = n * 1 + (i + d - n) /\ i + d - n \in 0 .. n - 1
    BY <1>2
  <2> QED
    BY <1>2, <2>1
<1> QED
  BY <1>1, <1>2

(* The ring, oldest entry first: what is read where.                       *)
LEMMA RingReads ==
  ASSUME NEW a, NEW o, NEW d, WellStored(a, o, d)
  PROVE  /\ Unrolled(o, d) \in Seq(Checkpoint)
         /\ Len(Unrolled(o, d)) = Len(o)
         /\ \A k \in 1 .. Len(o) :
              Unrolled(o, d)[k] = o[IF k + d <= Len(o) THEN k + d ELSE k + d - Len(o)]
<1> DEFINE n == Len(o)
           e(k) == o[((k - 1 + d) % n) + 1]
<1>1. n \in Nat /\ DOMAIN o = 1 .. n /\ d \in Nat
  BY LenProperties, RoyaltiesAssumption DEF WellStored
<1>2. \A k \in 1 .. n : n \in Nat \ {0} /\ k - 1 \in 0 .. n - 1 /\ d \in 0 .. n - 1
  <2>1. d # 0 => n = MAX_OVERFLOW_CHECKPOINTS
    BY DEF WellStored
  <2>2. d \in 0 .. MAX_OVERFLOW_CHECKPOINTS - 1 /\ MAX_OVERFLOW_CHECKPOINTS \in Nat
    BY RoyaltiesAssumption DEF WellStored
  <2> HIDE DEF n
  <2> QED
    BY <1>1, <2>1, <2>2
<1>3. \A k \in 1 .. n : e(k) = o[IF k + d <= n THEN k + d ELSE k + d - n]
  <2> SUFFICES ASSUME NEW k \in 1 .. n
               PROVE  ((k - 1 + d) % n) + 1 = IF k + d <= n THEN k + d ELSE k + d - n
    OBVIOUS
  <2>1. (k - 1 + d) % n = IF k - 1 + d < n THEN k - 1 + d ELSE k - 1 + d - n
    <3> HIDE DEF n
    <3> QED BY <1>2, Around
  <2> HIDE DEF n
  <2> QED
    BY <1>1, <1>2, <2>1
<1>4. \A k \in 1 .. n : e(k) \in Checkpoint
  <2>1. \A j \in 1 .. n : o[j] \in Checkpoint
    BY ElementOfSeq DEF WellStored
  <2>2. \A k \in 1 .. n : (IF k + d <= n THEN k + d ELSE k + d - n) \in 1 .. n
    <3> HIDE DEF n
    <3> QED BY <1>1, <1>2
  <2> HIDE DEF n, e
  <2> QED
    BY <1>3, <2>1, <2>2
<1>5. Unrolled(o, d) = [k \in 1 .. n |-> e(k)]
  BY <1>1 DEF Unrolled
<1> HIDE DEF e, n
<1>6. [k \in 1 .. n |-> e(k)] \in [1 .. n -> Checkpoint]
  BY <1>4
<1>7. Unrolled(o, d) \in Seq(Checkpoint) /\ Len(Unrolled(o, d)) = n
  BY <1>1, <1>5, <1>6
<1> QED
  BY <1>3, <1>5, <1>7 DEF n

(* The history is the array and after it the ring.                         *)
LEMMA HistoryReads ==
  ASSUME NEW a, NEW o, NEW d, WellStored(a, o, d)
  PROVE  /\ InOrder(a, o, d) \in Seq(Checkpoint)
         /\ Len(InOrder(a, o, d)) = Len(a) + Len(o)
         /\ \A k \in 1 .. Len(a) : InOrder(a, o, d)[k] = a[k]
         /\ \A k \in 1 .. Len(o) : InOrder(a, o, d)[Len(a) + k] = Unrolled(o, d)[k]
<1> DEFINE m == Len(a)
           n == Len(o)
           h == InOrder(a, o, d)
           r == Unrolled(o, d)
<1>1. r \in Seq(Checkpoint) /\ Len(r) = n /\ a \in Seq(Checkpoint) /\ m \in Nat /\ n \in Nat
  BY RingReads, LenProperties DEF WellStored
<1>2. /\ h \in Seq(Checkpoint)
      /\ Len(h) = m + n
      /\ \A i \in 1 .. m + n : h[i] = IF i <= m THEN a[i] ELSE r[i - m]
  <2>1. \A s, t \in Seq(Checkpoint) :
          /\ s \o t \in Seq(Checkpoint)
          /\ Len(s \o t) = Len(s) + Len(t)
          /\ \A i \in 1 .. Len(s) + Len(t) : (s \o t)[i] = IF i <= Len(s) THEN s[i] ELSE t[i - Len(s)]
    BY ConcatProperties
  <2>2. h = a \o r
    BY DEF InOrder
  <2> HIDE DEF h, r
  <2> QED
    BY <1>1, <2>1, <2>2, Zenon
<1> HIDE DEF h, r, m, n
<1>3. \A k \in 1 .. n : h[m + k] = r[k]
  BY <1>1, <1>2
<1>4. \A k \in 1 .. m : h[k] = a[k]
  BY <1>1, <1>2
<1> QED
  BY <1>2, <1>3, <1>4 DEF h, r, m, n

(* Storing a checkpoint appends it, replaces the one of this block, or drops *)
(* the oldest of the full ring.                                              *)
Appends(h, g) ==
  Len(g) = Len(h) + 1 /\ \A k \in 1 .. Len(h) : g[k] = h[k]
Replaces(h, g, ts) ==
  /\ Len(g) = Len(h) /\ Len(h) >= 1 /\ h[Len(h)].timestamp = ts
  /\ \A k \in 1 .. Len(h) - 1 : g[k] = h[k]
Evicts(h, g, m) ==
  /\ m \in Nat \ {0} /\ m < Len(h) /\ Len(g) = Len(h)
  /\ \A k \in 1 .. m : g[k] = h[k]
  /\ \A k \in m + 1 .. Len(h) - 1 : g[k] = h[k + 1]

LEMMA StoredInArray ==
  ASSUME RingInv, NEW cp \in Checkpoint, cp.timestamp = now, ~ ArrayFull, StoreInArray(cp)
  PROVE  /\ RingInv' /\ ~ RingFull /\ ~ RingFull'
         /\ History'[Len(History')] = cp
         /\ Appends(History, History') \/ Replaces(History, History', now)
<1> DEFINE a == rewardCheckpoints
           b == rewardCheckpoints'
           o == overflowCheckpoints
           d == overflowRingHead
           h == InOrder(a, o, d)
           g == InOrder(b, o, d)
<1>1. o = <<>> /\ overflowCheckpoints' = o /\ overflowRingHead' = d
  BY DEF RingInv, WellStored, StoreInArray, ArrayFull
<1>2. Len(o) = 0 /\ ~ RingFull /\ ~ RingFull'
  BY <1>1, RoyaltiesAssumption DEF RingFull
<1>3. a \in Seq(Checkpoint) /\ Len(a) \in Nat /\ Len(a) < MAX_REWARD_CHECKPOINTS
  BY LenProperties, RoyaltiesAssumption DEF RingInv, WellStored, ArrayFull
<1>4. /\ b \in Seq(Checkpoint) /\ Len(b) \in Nat /\ Len(b) <= MAX_REWARD_CHECKPOINTS
      /\ Len(b) >= 1 /\ b[Len(b)] = cp
      /\ Appends(a, b) \/ Replaces(a, b, now)
  <2>1. CASE a # <<>> /\ a[Len(a)].timestamp = now
    <3>1. b = [a EXCEPT ![Len(a)] = cp]
      BY <2>1 DEF StoreInArray
    <3>2. Len(a) \in 1 .. Len(a)
      BY <1>3, <2>1, EmptySeq
    <3>3. \A i \in 1 .. Len(a) : LET s == [a EXCEPT ![i] = cp] IN
             /\ s \in Seq(Checkpoint) /\ Len(s) = Len(a)
             /\ \A j \in 1 .. Len(a) : s[j] = IF j = i THEN cp ELSE a[j]
      BY <1>3, ExceptSeq
    <3>4. /\ b \in Seq(Checkpoint) /\ Len(b) = Len(a)
          /\ \A j \in 1 .. Len(a) : b[j] = IF j = Len(a) THEN cp ELSE a[j]
      BY <3>1, <3>2, <3>3, Zenon
    <3> HIDE DEF a, b
    <3> QED
      BY <1>3, <2>1, <3>2, <3>4, RoyaltiesAssumption DEF Replaces
  <2>2. CASE ~ (a # <<>> /\ a[Len(a)].timestamp = now)
    <3>1. b = Append(a, cp)
      BY <2>2 DEF StoreInArray
    <3> HIDE DEF a, b
    <3> QED
      BY <1>3, <3>1, RoyaltiesAssumption DEF Appends
  <2> QED
    BY <2>1, <2>2
<1>5. WellStored(b, o, d)
  BY <1>1, <1>2, <1>4 DEF RingInv, WellStored
<1>6. WellStored(a, o, d)
  BY DEF RingInv
<1>7. History = h /\ History' = g
  BY <1>1, HistoryIs
<1> HIDE DEF a, b, o, d
<1>8. /\ Len(h) = Len(a) /\ \A k \in 1 .. Len(a) : h[k] = a[k]
      /\ Len(g) = Len(b) /\ \A k \in 1 .. Len(b) : g[k] = b[k]
  BY <1>2, <1>3, <1>4, <1>5, <1>6, HistoryReads
<1> HIDE DEF g, h
<1>9. g[Len(g)] = cp /\ (Appends(h, g) \/ Replaces(h, g, now))
  BY <1>3, <1>4, <1>8 DEF Appends, Replaces
<1>10. RingInv'
  BY <1>1, <1>5 DEF RingInv, b, o, d
<1> QED
  BY <1>2, <1>7, <1>9, <1>10

(* The head of the ring is where the next entry goes, and the entry before *)
(* it, around the ring, the one written last.                              *)
Place(n, d, k) == IF k + d <= n THEN k + d ELSE k + d - n

(* The history in terms of array and ring.                                 *)
Spread(h, a, o, d) ==
  /\ Len(h) = Len(a) + Len(o)
  /\ \A k \in 1 .. Len(a) : h[k] = a[k]
  /\ \A k \in 1 .. Len(o) : h[Len(a) + k] = o[Place(Len(o), d, k)]

LEMMA StoresSpread ==
  ASSUME NEW a, NEW o, NEW d, WellStored(a, o, d)
  PROVE  Spread(InOrder(a, o, d), a, o, d)
BY HistoryReads, RingReads DEF Place, Spread

LEMMA Overwritten ==
  ASSUME NEW o \in Seq(Checkpoint), NEW i \in 1 .. Len(o), NEW cp \in Checkpoint,
         NEW p, p = [o EXCEPT ![i] = cp]
  PROVE  /\ p \in Seq(Checkpoint) /\ Len(p) = Len(o)
         /\ \A j \in 1 .. Len(o) : p[j] = IF j = i THEN cp ELSE o[j]
BY ExceptSeq

Turns(n, d, e) ==
  /\ n \in Nat \ {0} /\ d \in Nat /\ d < n
  /\ e = IF d + 1 < n THEN d + 1 ELSE 0
Rotates(n, d, e) ==
  /\ e = (d + 1) % n /\ e \in 0 .. n - 1
  /\ \A k \in 1 .. n - 1 : /\ Place(n, e, k) = Place(n, d, k + 1)
                           /\ Place(n, e, k) \in 1 .. n /\ Place(n, e, k) # d + 1
                           /\ k + 1 \in 1 .. n
  /\ Place(n, e, n) = d + 1
LEMMA Turned ==
  ASSUME NEW n, NEW d, NEW e, Turns(n, d, e)
  PROVE  Rotates(n, d, e)
<1> USE DEF Turns, Rotates
<1>1. e = (d + 1) % n
  <2>1. CASE d + 1 < n
    BY <2>1
  <2>2. CASE d + 1 = n
    BY <2>2
  <2> QED
    BY <2>1, <2>2
<1>2. CASE d + 1 < n
  BY <1>1, <1>2 DEF Place
<1>3. CASE d + 1 = n
  <2>1. e = 0
    BY <1>3
  <2> QED
    BY <1>1, <1>3, <2>1 DEF Place
<1> QED
  BY <1>2, <1>3

(* Where the entries of a ring go to: nowhere if it is only written or     *)
(* grows, one place nearer to the front if the oldest made room.           *)
Written(a, o, p, d, cp, m, n, ts) ==
  /\ m \in Nat /\ m = Len(a) /\ n \in Nat /\ n = Len(o) /\ Len(p) = n
  /\ d \in Nat /\ d < n /\ n >= 1
  /\ \A j \in 1 .. n : p[j] = IF j = Place(n, d, n) THEN cp ELSE o[j]
  /\ o[Place(n, d, n)].timestamp = ts
LEMMA RingWritten ==
  ASSUME NEW a, NEW o, NEW p, NEW d, NEW cp, NEW m, NEW n, NEW ts, Written(a, o, p, d, cp, m, n, ts),
         NEW h, NEW g, Spread(h, a, o, d), Spread(g, a, p, d)
  PROVE  g[Len(g)] = cp /\ Replaces(h, g, ts)
<1> USE DEF Written
<1>1. \A k \in 1 .. n : /\ Place(n, d, k) \in 1 .. n
                        /\ Place(n, d, k) = Place(n, d, n) => k = n
  BY DEF Place
<1>2. /\ Len(g) = m + n /\ Len(h) = m + n /\ n \in 1 .. n
      /\ \A k \in 1 .. m : g[k] = h[k]
      /\ \A k \in 1 .. n : g[m + k] = p[Place(n, d, k)] /\ h[m + k] = o[Place(n, d, k)]
  BY DEF Spread
<1>3. g[m + n] = cp /\ h[m + n].timestamp = ts
  BY <1>1, <1>2, Zenon
<1>4. ASSUME NEW k \in 1 .. n, k # n PROVE g[m + k] = h[m + k]
  BY <1>1, <1>2, <1>4, Zenon
<1>5. \A k \in 1 .. m + n - 1 : g[k] = h[k]
  <2> SUFFICES ASSUME NEW k \in 1 .. m + n - 1 PROVE g[k] = h[k]
    OBVIOUS
  <2>1. CASE k <= m
    BY <1>2, <2>1
  <2>2. CASE k > m
    <3>1. k - m \in 1 .. n /\ k - m # n /\ m + (k - m) = k
      BY <2>2
    <3>2. g[m + (k - m)] = h[m + (k - m)]
      BY <1>4, <3>1, Zenon
    <3> QED
      BY <3>1, <3>2, Zenon
  <2> QED
    BY <2>1, <2>2
<1> QED
  BY <1>2, <1>3, <1>5 DEF Replaces

Grown(a, o, p, cp, m, n) ==
  /\ m \in Nat /\ m = Len(a) /\ n \in Nat /\ n = Len(o) /\ Len(p) = n + 1
  /\ (\A j \in 1 .. n : p[j] = o[j]) /\ p[n + 1] = cp
LEMMA RingGrown ==
  ASSUME NEW a, NEW o, NEW p, NEW cp, NEW m, NEW n, Grown(a, o, p, cp, m, n),
         NEW h, NEW g, Spread(h, a, o, 0), Spread(g, a, p, 0)
  PROVE  g[Len(g)] = cp /\ Appends(h, g)
<1> USE DEF Grown
<1>1. /\ \A k \in 1 .. n : Place(n, 0, k) = k /\ Place(n + 1, 0, k) = k
      /\ Place(n + 1, 0, n + 1) = n + 1
      /\ \A k \in 1 .. n : k \in 1 .. n + 1
      /\ n + 1 \in 1 .. n + 1
  BY DEF Place
<1>2. /\ Len(g) = m + (n + 1) /\ Len(h) = m + n
      /\ \A k \in 1 .. m : g[k] = h[k]
      /\ \A k \in 1 .. n + 1 : g[m + k] = p[Place(n + 1, 0, k)]
      /\ \A k \in 1 .. n : h[m + k] = o[Place(n, 0, k)]
  BY DEF Spread
<1>3. g[m + (n + 1)] = cp
  BY <1>1, <1>2, Zenon
<1>4. ASSUME NEW k \in 1 .. n PROVE g[m + k] = h[m + k]
  <2>1. Place(n, 0, k) = k /\ Place(n + 1, 0, k) = k /\ k \in 1 .. n + 1
    BY <1>1, Zenon
  <2>2. g[m + k] = p[k] /\ h[m + k] = o[k] /\ p[k] = o[k]
    BY <1>2, <2>1, Zenon
  <2> QED
    BY <2>2, Zenon
<1>5. \A k \in 1 .. m + n : g[k] = h[k]
  <2> SUFFICES ASSUME NEW k \in 1 .. m + n PROVE g[k] = h[k]
    OBVIOUS
  <2>1. CASE k <= m
    BY <1>2, <2>1
  <2>2. CASE k > m
    <3>1. k - m \in 1 .. n /\ m + (k - m) = k
      BY <2>2
    <3>2. g[m + (k - m)] = h[m + (k - m)]
      BY <1>4, <3>1, Zenon
    <3> QED
      BY <3>1, <3>2, Zenon
  <2> QED
    BY <2>1, <2>2
<1> QED
  BY <1>2, <1>3, <1>5 DEF Appends

Moved(a, o, p, d, e, cp, m, n) ==
  /\ m \in Nat \ {0} /\ m = Len(a) /\ n \in Nat /\ n = Len(o) /\ Len(p) = n
  /\ d \in Nat /\ d < n /\ e = IF d + 1 < n THEN d + 1 ELSE 0
  /\ \A j \in 1 .. n : p[j] = IF j = d + 1 THEN cp ELSE o[j]
LEMMA RingTurned ==
  ASSUME NEW a, NEW o, NEW p, NEW d, NEW e, NEW cp, NEW m, NEW n, Moved(a, o, p, d, e, cp, m, n),
         NEW h, NEW g, Spread(h, a, o, d), Spread(g, a, p, e)
  PROVE  g[Len(g)] = cp /\ Evicts(h, g, m)
<1> USE DEF Moved
<1>1. /\ \A k \in 1 .. n - 1 : /\ Place(n, e, k) = Place(n, d, k + 1)
                                  /\ Place(n, e, k) \in 1 .. n /\ Place(n, e, k) # d + 1
                                  /\ k + 1 \in 1 .. n
      /\ Place(n, e, n) = d + 1 /\ d + 1 \in 1 .. n /\ n \in 1 .. n
      /\ \A k \in 1 .. n : k # n => k \in 1 .. n - 1
  <2>1. n \in Nat \ {0} /\ d + 1 \in 1 .. n /\ n \in 1 .. n /\ \A k \in 1 .. n : k # n => k \in 1 .. n - 1
    OBVIOUS
  <2>2. Turns(n, d, e)
    BY <2>1 DEF Turns
  <2>3. Rotates(n, d, e)
    BY <2>2, Turned, Zenon
  <2> QED
    BY <2>1, <2>3, Zenon DEF Rotates
<1>2. /\ Len(g) = m + n /\ Len(h) = m + n
      /\ \A k \in 1 .. m : g[k] = h[k]
      /\ \A k \in 1 .. n : g[m + k] = p[Place(n, e, k)]
      /\ \A k \in 1 .. n : h[m + k] = o[Place(n, d, k)]
  BY DEF Spread
<1>3. g[m + n] = cp
  BY <1>1, <1>2, Zenon
<1>4. ASSUME NEW k \in 1 .. n, k # n PROVE g[m + k] = h[m + (k + 1)]
  <2>1. k \in 1 .. n - 1
    BY <1>1, <1>4, Zenon
  <2>2. g[m + k] = p[Place(n, e, k)] /\ h[m + (k + 1)] = o[Place(n, d, k + 1)]
    BY <1>1, <1>2, <2>1, Zenon
  <2>3. p[Place(n, e, k)] = o[Place(n, e, k)]
    BY <1>1, <2>1, Zenon
  <2>4. Place(n, e, k) = Place(n, d, k + 1)
    BY <1>1, <2>1, Zenon
  <2> QED
    BY <2>2, <2>3, <2>4, Zenon
<1>5. \A k \in m + 1 .. m + n - 1 : g[k] = h[k + 1]
  <2> SUFFICES ASSUME NEW k \in m + 1 .. m + n - 1 PROVE g[k] = h[k + 1]
    OBVIOUS
  <2>1. k - m \in 1 .. n /\ k - m # n /\ m + (k - m) = k /\ m + (k - m + 1) = k + 1
    OBVIOUS
  <2>2. g[m + (k - m)] = h[m + (k - m + 1)]
    BY <1>4, <2>1, Zenon
  <2> QED
    BY <2>1, <2>2, Zenon
<1> QED
  BY <1>2, <1>3, <1>5 DEF Evicts

LEMMA StoredInRing ==
  ASSUME RingInv, NEW cp \in Checkpoint, cp.timestamp = now, ArrayFull, StoreInRing(cp)
  PROVE  /\ RingInv' /\ UNCHANGED rewardCheckpoints
         /\ History'[Len(History')] = cp
         /\ \/ ~ RingFull /\ Appends(History, History')
            \/ (RingFull' <=> RingFull) /\ Replaces(History, History', now)
            \/ RingFull /\ RingFull' /\ Evicts(History, History', Len(rewardCheckpoints))
<1> DEFINE a == rewardCheckpoints
           m == Len(a)
           o == overflowCheckpoints
           p == overflowCheckpoints'
           n == Len(o)
           d == overflowRingHead
           e == overflowRingHead'
           h == InOrder(a, o, d)
           g == InOrder(a, p, e)
           N == MAX_OVERFLOW_CHECKPOINTS
<1>1. UNCHANGED rewardCheckpoints
  BY DEF StoreInRing
<1>2. /\ WellStored(a, o, d) /\ Spread(h, a, o, d)
      /\ History = h /\ History' = g
      /\ WellStored(a, p, e) => Spread(g, a, p, e)
      /\ RingInv' <=> WellStored(a, p, e)
  BY <1>1, HistoryIs, StoresSpread DEF RingInv
<1>3. /\ a \in Seq(Checkpoint) /\ m \in Nat \ {0} /\ m <= MAX_REWARD_CHECKPOINTS
      /\ m = MAX_REWARD_CHECKPOINTS
      /\ o \in Seq(Checkpoint) /\ n \in Nat /\ n <= N
      /\ d \in Nat /\ d \in 0 .. N - 1
      /\ d # 0 => n = N
      /\ N \in Nat \ {0}
      /\ RingFull <=> n = N
      /\ RingFull' <=> Len(p) = N
      /\ o # <<>> => n >= 1
  BY <1>2, LenProperties, EmptySeq, RoyaltiesAssumption DEF WellStored, ArrayFull, RingFull
<1>4. /\ WrittenThisBlock <=> o # <<>> /\ o[LastWritten].timestamp = now
      /\ LastWritten = IF d = 0 THEN n ELSE d
      /\ \/ WrittenThisBlock /\ p = [o EXCEPT ![LastWritten] = cp] /\ e = d
         \/ ~ WrittenThisBlock /\ n # N /\ p = Append(o, cp) /\ e = d
         \/ ~ WrittenThisBlock /\ n = N /\ p = [o EXCEPT ![d + 1] = cp] /\ e = (d + 1) % N
  BY DEF StoreInRing, RingFull, Oldest, LastWritten, WrittenThisBlock
<1> HIDE DEF a, o, p, d, e, m, n, h, g, N
<1>5. ASSUME WrittenThisBlock, p = [o EXCEPT ![LastWritten] = cp], e = d
      PROVE  RingInv' /\ g[Len(g)] = cp /\ (RingFull' <=> RingFull) /\ Replaces(h, g, now)
  <2>1. n >= 1 /\ d < n /\ LastWritten = Place(n, d, n) /\ LastWritten \in 1 .. n
    BY <1>3, <1>4, <1>5 DEF Place
  <2>2. /\ p \in Seq(Checkpoint) /\ Len(p) = n
        /\ \A j \in 1 .. n : p[j] = IF j = Place(n, d, n) THEN cp ELSE o[j]
    <3>1. LastWritten \in 1 .. Len(o)
      BY <2>1 DEF n
    <3>2. /\ p \in Seq(Checkpoint) /\ Len(p) = Len(o)
          /\ \A j \in 1 .. Len(o) : p[j] = IF j = LastWritten THEN cp ELSE o[j]
      BY <1>3, <1>5, <3>1, Overwritten
    <3> QED
      BY <2>1, <3>2 DEF n
  <2>3. WellStored(a, p, e)
    <3>1. /\ Len(a) <= MAX_REWARD_CHECKPOINTS /\ Len(a) = MAX_REWARD_CHECKPOINTS
          /\ Len(p) <= MAX_OVERFLOW_CHECKPOINTS
          /\ e \in 0 .. MAX_OVERFLOW_CHECKPOINTS - 1
          /\ e # 0 => Len(p) = MAX_OVERFLOW_CHECKPOINTS
      BY <1>3, <1>5, <2>2 DEF m, N
    <3> QED
      BY <1>3, <2>2, <3>1, Zenon DEF WellStored
  <2>4. Spread(g, a, p, d) /\ o[Place(n, d, n)].timestamp = now /\ Len(o) = n /\ Len(a) = m
    BY <1>2, <1>4, <1>5, <2>1, <2>3 DEF n, m
  <2>5. Written(a, o, p, d, cp, m, n, now)
    BY <1>3, <2>1, <2>2, <2>4 DEF Written
  <2>6. g[Len(g)] = cp /\ Replaces(h, g, now)
    BY <1>2, <2>4, <2>5, RingWritten, Zenon
  <2> QED
    BY <1>2, <1>3, <2>2, <2>3, <2>6
<1>6. ASSUME n # N, p = Append(o, cp), e = d
      PROVE  RingInv' /\ g[Len(g)] = cp /\ ~ RingFull /\ Appends(h, g)
  <2>1. d = 0 /\ n + 1 <= N
    BY <1>3, <1>6
  <2>2. /\ p \in Seq(Checkpoint) /\ Len(p) = n + 1
        /\ \A j \in 1 .. n : p[j] = o[j]
        /\ p[n + 1] = cp
    BY <1>3, <1>6 DEF n
  <2>3. WellStored(a, p, e)
    BY <1>2, <1>3, <1>6, <2>1, <2>2 DEF WellStored, m, n, N
  <2>4. Spread(g, a, p, 0) /\ Spread(h, a, o, 0) /\ Len(o) = n /\ Len(a) = m
    BY <1>2, <1>6, <2>1, <2>3 DEF n, m
  <2>5. Grown(a, o, p, cp, m, n)
    BY <1>3, <2>2, <2>4 DEF Grown
  <2>6. g[Len(g)] = cp /\ Appends(h, g)
    BY <2>4, <2>5, RingGrown, Zenon
  <2> QED
    BY <1>2, <1>3, <1>6, <2>3, <2>6
<1>7. ASSUME n = N, p = [o EXCEPT ![d + 1] = cp], e = (d + 1) % N
      PROVE  RingInv' /\ g[Len(g)] = cp /\ RingFull /\ RingFull' /\ Evicts(h, g, m)
  <2>1. d < n /\ d + 1 \in 1 .. n
    BY <1>3, <1>7
  <2>2. e = IF d + 1 < n THEN d + 1 ELSE 0
    <3> DEFINE f == IF d + 1 < n THEN d + 1 ELSE 0
    <3>1. Turns(n, d, f)
      BY <1>3, <2>1 DEF Turns
    <3>2. f = (d + 1) % n
      <4> HIDE DEF f
      <4> QED
        BY <3>1, Turned, Zenon DEF Rotates
    <3> QED
      BY <1>7, <3>2
  <2>3. /\ p \in Seq(Checkpoint) /\ Len(p) = n
        /\ \A j \in 1 .. n : p[j] = IF j = d + 1 THEN cp ELSE o[j]
    <3>1. d + 1 \in 1 .. Len(o)
      BY <2>1 DEF n
    <3>2. /\ p \in Seq(Checkpoint) /\ Len(p) = Len(o)
          /\ \A j \in 1 .. Len(o) : p[j] = IF j = d + 1 THEN cp ELSE o[j]
      BY <1>3, <1>7, <3>1, Overwritten
    <3> QED
      BY <3>2 DEF n
  <2>4. e \in 0 .. N - 1
    BY <1>3, <1>7, <2>1, <2>2
  <2>5. WellStored(a, p, e)
    BY <1>2, <1>3, <1>7, <2>3, <2>4 DEF WellStored, m, n, N
  <2>6. Spread(g, a, p, e) /\ Len(o) = n /\ Len(a) = m
    BY <1>2, <2>5 DEF n, m
  <2>7. Moved(a, o, p, d, e, cp, m, n)
    BY <1>3, <2>1, <2>2, <2>3, <2>6, Zenon DEF Moved
  <2>8. g[Len(g)] = cp /\ Evicts(h, g, m)
    <3>1. Spread(h, a, o, d) /\ Spread(g, a, p, e) /\ Moved(a, o, p, d, e, cp, m, n)
      BY <1>2, <2>6, <2>7
    <3>2. \A x1, x2, x3, x4, x5, x6, x7, x8, x9, x10 :
            Moved(x1, x2, x3, x4, x5, x6, x7, x8) /\ Spread(x9, x1, x2, x4) /\ Spread(x10, x1, x3, x5)
              => x10[Len(x10)] = x6 /\ Evicts(x9, x10, x7)
      BY RingTurned
    <3> QED
      BY <3>1, <3>2, Zenon
  <2> QED
    BY <1>2, <1>3, <1>7, <2>3, <2>5, <2>8
<1> QED
  BY <1>1, <1>2, <1>4, <1>5, <1>6, <1>7 DEF m, a

-----------------------------------------------------------------------------
(* Part 4: the history is in order.                                        *)

Comes(a, b) ==
  /\ a.timestamp <= b.timestamp
  /\ a.ethPerVe < b.ethPerVe
  /\ b.timeWeighted - a.timeWeighted <= b.timestamp * (b.ethPerVe - a.ethPerVe)
Ordered(h) == \A j, k \in 0 .. Len(h) : j < k => Comes(At(h, j), At(h, k))

(* Storing a checkpoint carries entry s[k] of the old history to place k of *)
(* the new one, all but the last.                                           *)
Shift(h, g, s) ==
  /\ Len(h) \in Nat /\ Len(g) \in Nat \ {0}
  /\ s \in [0 .. Len(g) - 1 -> 0 .. Len(h)] /\ s[0] = 0
  /\ \A j, k \in 0 .. Len(g) - 1 : j < k => s[j] < s[k]
  /\ \A k \in 0 .. Len(g) - 1 : At(g, k) = At(h, s[k])

(* What it does not carry is never asked for before end: it is not earlier, *)
(* or a later entry is.                                                     *)
Lossless(h, g, s, end) ==
  \A i \in 0 .. Len(h) :
    \/ \E k \in 0 .. Len(g) - 1 : s[k] = i
    \/ At(h, i).timestamp >= end
    \/ \E j \in i + 1 .. Len(h) : At(h, j).timestamp < end

LEMMA ShiftOfAppend ==
  ASSUME NEW h \in Seq(Checkpoint), NEW g \in Seq(Checkpoint), Appends(h, g)
  PROVE  \E s : Shift(h, g, s) /\ \A end : Lossless(h, g, s, end)
<1> DEFINE s == [k \in 0 .. Len(g) - 1 |-> k]
<1>1. Len(h) \in Nat /\ Len(g) = Len(h) + 1
  BY LenProperties DEF Appends
<1>2. \A k \in 0 .. Len(g) - 1 : At(g, k) = At(h, k)
  BY <1>1 DEF Appends, At
<1>3. Shift(h, g, s)
  BY <1>1, <1>2 DEF Shift
<1>4. \A i \in 0 .. Len(h) : i \in 0 .. Len(g) - 1 /\ s[i] = i
  BY <1>1
<1> HIDE DEF s
<1>5. \A end : Lossless(h, g, s, end)
  BY <1>4 DEF Lossless
<1> QED
  BY <1>3, <1>5

LEMMA ShiftOfReplacement ==
  ASSUME NEW h \in Seq(Checkpoint), NEW g \in Seq(Checkpoint), NEW ts \in Nat, Replaces(h, g, ts)
  PROVE  \E s : Shift(h, g, s) /\ \A end \in Nat : end <= ts => Lossless(h, g, s, end)
<1> DEFINE s == [k \in 0 .. Len(g) - 1 |-> k]
<1>1. Len(h) \in Nat /\ Len(g) = Len(h) /\ Len(h) >= 1
  BY LenProperties DEF Replaces
<1>2. \A k \in 0 .. Len(g) - 1 : At(g, k) = At(h, k)
  BY <1>1 DEF Replaces, At
<1>3. Shift(h, g, s)
  BY <1>1, <1>2 DEF Shift
<1>4. \A i \in 0 .. Len(h) : \/ i \in 0 .. Len(g) - 1 /\ s[i] = i
                             \/ At(h, i).timestamp = ts
  BY <1>1 DEF Replaces, At
<1> HIDE DEF s
<1>5. ASSUME NEW end \in Nat, end <= ts PROVE Lossless(h, g, s, end)
  BY <1>4, <1>5 DEF Lossless
<1> QED
  BY <1>3, <1>5

LEMMA ShiftOfEviction ==
  ASSUME NEW h \in Seq(Checkpoint), NEW g \in Seq(Checkpoint), NEW m, Evicts(h, g, m),
         NEW ts \in Nat, g[Len(g)].timestamp = ts
  PROVE  \E s : /\ Shift(h, g, s)
                /\ \A end \in Nat : end <= ts /\ g[m + 1].timestamp < end
                                      => Lossless(h, g, s, end)
<1> DEFINE s == [k \in 0 .. Len(g) - 1 |-> IF k <= m THEN k ELSE k + 1]
<1>1. Len(h) \in Nat /\ Len(g) = Len(h) /\ m \in Nat \ {0} /\ m + 1 <= Len(h)
  BY LenProperties DEF Evicts
<1>2. \A k \in 0 .. Len(g) - 1 : At(g, k) = At(h, s[k])
  BY <1>1 DEF Evicts, At
<1>3. Shift(h, g, s)
  <2>1. \A k \in 0 .. Len(g) - 1 : s[k] = (IF k <= m THEN k ELSE k + 1) /\ s[k] \in 0 .. Len(h)
    BY <1>1
  <2>2. s \in [0 .. Len(g) - 1 -> 0 .. Len(h)] /\ 0 \in 0 .. Len(g) - 1
    BY <1>1
  <2> HIDE DEF s
  <2>3. s[0] = 0 /\ \A j, k \in 0 .. Len(g) - 1 : j < k => s[j] < s[k]
    BY <1>1, <2>1, <2>2
  <2> QED
    BY <1>1, <1>2, <2>2, <2>3 DEF Shift
<1>4. \A i \in 0 .. Len(h) : \/ i <= m /\ i \in 0 .. Len(g) - 1 /\ s[i] = i
                             \/ i > m + 1 /\ i - 1 \in 0 .. Len(g) - 1 /\ s[i - 1] = i
                             \/ i = m + 1
  BY <1>1
<1> HIDE DEF s
<1>5. ASSUME NEW end \in Nat, end <= ts, g[m + 1].timestamp < end PROVE Lossless(h, g, s, end)
  <2>1. m + 1 # Len(g)
    BY <1>5
  <2>2. m + 2 \in m + 1 + 1 .. Len(h) /\ g[m + 1] = h[m + 2] /\ At(h, m + 2) = h[m + 2]
    BY <1>1, <2>1 DEF Evicts, At
  <2>3. \E j \in m + 1 + 1 .. Len(h) : At(h, j).timestamp < end
    BY <1>5, <2>2
  <2> QED
    BY <1>4, <2>3 DEF Lossless
<1> QED
  BY <1>3, <1>5

(* The entries of a history are checkpoints, Zeroth included. *)
LEMMA AtIsCheckpoint ==
  ASSUME NEW h \in Seq(Checkpoint), NEW k \in 0 .. Len(h)
  PROVE  At(h, k) \in Checkpoint
<1>1. CASE k = 0
  BY <1>1 DEF At, Zeroth, Checkpoint
<1>2. CASE k # 0
  <2>1. k \in 1 .. Len(h)
    BY <1>2, LenProperties
  <2> QED
    BY <1>2, <2>1, ElementOfSeq DEF At
<1> QED
  BY <1>1, <1>2

LEMMA Times ==
  ASSUME NEW a \in Int, NEW b \in Int, a <= b, NEW c \in Nat
  PROVE  a * c <= b * c /\ c * a <= c * b
<1>1. (b - a) * c >= 0
  OBVIOUS
<1> QED
  BY <1>1

(* A checkpoint of now, delta further on, comes after whatever the last     *)
(* entry comes after, and after that one.                                   *)
LEMMA ComesNext ==
  ASSUME NEW a \in Checkpoint, NEW l \in Checkpoint, NEW b \in Checkpoint,
         NEW delta \in Nat \ {0}, NEW time \in Nat,
         a = l \/ Comes(a, l), l.timestamp <= time,
         b.timestamp = time, b.ethPerVe = l.ethPerVe + delta,
         b.timeWeighted = l.timeWeighted + delta * time
  PROVE  Comes(a, b)
<1> DEFINE gap == l.ethPerVe - a.ethPerVe
           far == l.timeWeighted - a.timeWeighted
<1>1. /\ a.timestamp \in Nat /\ l.timestamp \in Nat /\ a.ethPerVe \in Nat /\ l.ethPerVe \in Nat
      /\ a.timeWeighted \in Nat /\ l.timeWeighted \in Nat
  BY DEF Checkpoint
<1>2. a.timestamp <= time /\ gap \in Nat /\ far \in Int /\ far <= l.timestamp * gap
  <2>1. CASE a = l
    <3>1. far = 0 /\ gap = 0
      BY <1>1, <2>1
    <3>2. l.timestamp * 0 = 0
      BY <1>1
    <3> HIDE DEF far, gap
    <3> QED
      BY <1>1, <2>1, <3>1, <3>2
  <2>2. CASE Comes(a, l)
    BY <1>1, <2>2 DEF Comes
  <2> QED
    BY <2>1, <2>2
<1>3. /\ b.ethPerVe - a.ethPerVe = gap + delta /\ a.ethPerVe < b.ethPerVe
      /\ b.timeWeighted - a.timeWeighted = far + delta * time
  <2> DEFINE more == delta * time
  <2>1. more \in Int
    OBVIOUS
  <2> HIDE DEF more
  <2>2. b.timeWeighted = l.timeWeighted + more
    BY DEF more
  <2>3. b.timeWeighted - a.timeWeighted = far + more
    BY <1>1, <2>1, <2>2
  <2>4. l.ethPerVe - a.ethPerVe \in Nat
    BY <1>2
  <2>5. b.ethPerVe - a.ethPerVe = (l.ethPerVe - a.ethPerVe) + delta /\ a.ethPerVe < b.ethPerVe
    BY ONLY <1>1, <2>4, b.ethPerVe = l.ethPerVe + delta, delta \in Nat \ {0}
  <2> QED
    BY <2>3, <2>5 DEF more
<1> HIDE DEF gap, far
<1>4. l.timestamp * gap <= time * gap
  BY <1>1, <1>2, Times
<1>5. time * (gap + delta) = time * gap + delta * time /\ time * gap \in Int /\ delta * time \in Int /\ l.timestamp * gap \in Int
  BY <1>1, <1>2
<1>6. far + delta * time <= time * (gap + delta)
  BY <1>2, <1>4, <1>5
<1> QED
  BY <1>2, <1>3, <1>6 DEF Comes

(* The time-weighted index after a flush of delta. *)
Later(w, delta, time) == w + delta * time

(* The indices stand where the history ends, not after now. *)
EndsAt(h, time, e, w) ==
  /\ At(h, Len(h)).timestamp <= time
  /\ At(h, Len(h)).ethPerVe = e /\ At(h, Len(h)).timeWeighted = w

(* One more checkpoint: what h was, g is. *)
Extends(h, g, time, e, w, delta) ==
  /\ h \in Seq(Checkpoint) /\ g \in Seq(Checkpoint)
  /\ time \in Nat /\ e \in Nat /\ w \in Nat /\ delta \in Nat \ {0}
  /\ Ordered(h) /\ EndsAt(h, time, e, w)
  /\ g[Len(g)] = [timestamp |-> time, ethPerVe |-> e + delta, timeWeighted |-> Later(w, delta, time)]

LEMMA OrderStays ==
  ASSUME NEW h, NEW g, NEW time, NEW e, NEW w, NEW delta, Extends(h, g, time, e, w, delta),
         NEW s, Shift(h, g, s)
  PROVE  Ordered(g) /\ EndsAt(g, time, e + delta, Later(w, delta, time))
<1> DEFINE n == Len(g)
           m == Len(h)
<1>1. n \in Nat \ {0} /\ m \in Nat /\ \A k \in 0 .. n - 1 : s[k] \in 0 .. m
  BY DEF Shift
<1>2. At(g, n) = g[n] /\ n \in 0 .. n /\ m \in 0 .. m
  BY <1>1 DEF At
<1>3. \A k \in 0 .. m : At(h, k) \in Checkpoint
  BY AtIsCheckpoint DEF Extends
<1>4. At(g, n) \in Checkpoint
  <2>1. n \in 0 .. Len(g)
    BY <1>2
  <2> QED
    BY <2>1, AtIsCheckpoint DEF Extends
<1>5. ASSUME NEW j \in 0 .. n, NEW k \in 0 .. n, j < k
      PROVE  Comes(At(g, j), At(g, k))
  <2>1. j \in 0 .. n - 1 /\ s[j] \in 0 .. m
    BY <1>1, <1>5
  <2>2. At(g, j) = At(h, s[j])
    BY <2>1 DEF Shift
  <2>3. CASE k < n
    <3>1. k \in 0 .. n - 1 /\ s[k] \in 0 .. m
      BY <1>1, <2>3
    <3>2. At(g, k) = At(h, s[k]) /\ s[j] < s[k]
      BY <1>5, <2>1, <3>1 DEF Shift
    <3> QED
      BY <2>1, <2>2, <3>1, <3>2 DEF Extends, Ordered
  <2>4. CASE k = n
    <3>1. s[j] = m \/ Comes(At(h, s[j]), At(h, m))
      <4>1. s[j] = m \/ s[j] < m
        BY <1>1, <2>1
      <4> QED
        BY <1>2, <2>1, <4>1 DEF Extends, Ordered
    <3>2. /\ At(h, m).timestamp <= time
          /\ At(g, n).timestamp = time /\ At(g, n).ethPerVe = At(h, m).ethPerVe + delta
          /\ At(g, n).timeWeighted = At(h, m).timeWeighted + delta * time
      BY <1>2 DEF Extends, EndsAt, Later
    <3>3. At(h, s[j]) \in Checkpoint /\ At(h, m) \in Checkpoint
      BY <1>2, <1>3, <2>1
    <3>4. At(h, s[j]) = At(h, m) \/ Comes(At(h, s[j]), At(h, m))
      BY <3>1
    <3>5. delta \in Nat \ {0} /\ time \in Nat
      BY DEF Extends
    <3>6. Comes(At(h, s[j]), At(g, n))
      BY <1>4, <3>2, <3>3, <3>4, <3>5, ComesNext
    <3> QED
      BY <2>2, <2>4, <3>6
  <2> QED
    BY <1>1, <2>3, <2>4
<1>6. EndsAt(g, time, e + delta, Later(w, delta, time))
  BY <1>2 DEF EndsAt, Extends
<1> QED
  BY <1>5, <1>6 DEF Ordered

-----------------------------------------------------------------------------
(* Part 5: what one lock is credited.                                      *)

(* The look-up of the indices before ts, and where in the history it ends. *)
Before(h, ts) == {k \in DOMAIN h : h[k].timestamp < ts}
PrefixOf(h, ts) == IF Before(h, ts) = {} THEN Zeroth ELSE h[Max(Before(h, ts))]
Reads(h, ts, k) ==
  /\ k \in 0 .. Len(h)
  /\ k = 0 \/ At(h, k).timestamp < ts
  /\ \A j \in k + 1 .. Len(h) : At(h, j).timestamp >= ts

LEMMA PrefixIs == \A ts : getRewardPrefixBefore(ts) = PrefixOf(History, ts)
BY Zenon DEF getRewardPrefixBefore, PrefixOf, Before, Zeroth

LEMMA MaxOfNaturals ==
  ASSUME NEW n \in Nat, NEW S \in SUBSET (1 .. n), S # {}
  PROVE  Max(S) \in S /\ \A y \in S : Max(S) >= y
<1> DEFINE R == {n - x : x \in S}
<1>1. R \in SUBSET Nat /\ R # {}
  <2>1. \A x \in S : n - x \in Nat
    OBVIOUS
  <2>2. \E x : x \in S
    OBVIOUS
  <2> QED
    BY <2>1, <2>2, Zenon
<1>2. Min(R) \in R /\ \A y \in R : Min(R) <= y
  <2> HIDE DEF R
  <2> QED
    BY <1>1, MinOfNaturals
<1>3. PICK x \in S : Min(R) = n - x
  BY <1>2
<1>4. ASSUME NEW y \in S PROVE x >= y
  <2>1. n - y \in R
    OBVIOUS
  <2>2. n - x <= n - y
    BY <1>2, <1>3, <2>1
  <2> QED
    BY <2>2
<1> HIDE DEF R
<1>5. \E x1 \in S : \A y \in S : x1 >= y
  BY <1>4
<1>6. Max(S) = CHOOSE x1 \in S : \A y \in S : x1 >= y
  BY DEF Max
<1> QED
  BY <1>5, <1>6, Zenon

LEMMA PrefixReads ==
  ASSUME NEW h \in Seq(Checkpoint), NEW ts \in Nat
  PROVE  \E k : Reads(h, ts, k) /\ PrefixOf(h, ts) = At(h, k)
<1> DEFINE n == Len(h)
<1>1. n \in Nat /\ DOMAIN h = 1 .. n
  BY LenProperties
<1>2. \A j \in 1 .. n : At(h, j) = h[j]
  BY DEF At
<1>3. Before(h, ts) \in SUBSET (1 .. n)
  BY <1>1 DEF Before
<1>4. ASSUME NEW j \in 1 .. n, j \notin Before(h, ts) PROVE At(h, j).timestamp >= ts
  <2>1. j \in 0 .. Len(h)
    BY <1>1
  <2>2. At(h, j).timestamp \in Nat
    BY <2>1, AtIsCheckpoint DEF Checkpoint
  <2>3. ~ (h[j].timestamp < ts)
    BY <1>1, <1>4 DEF Before
  <2> QED
    BY <1>2, <2>2, <2>3
<1>5. CASE Before(h, ts) = {}
  <2>1. Reads(h, ts, 0)
    <3>1. \A j \in 0 + 1 .. n : At(h, j).timestamp >= ts
      BY <1>1, <1>4, <1>5
    <3> QED
      BY <1>1, <3>1 DEF Reads
  <2>2. PrefixOf(h, ts) = At(h, 0)
    BY <1>5 DEF PrefixOf, At
  <2> QED
    BY <2>1, <2>2
<1>6. CASE Before(h, ts) # {}
  <2> DEFINE k == Max(Before(h, ts))
  <2>1. k \in Before(h, ts) /\ \A y \in Before(h, ts) : k >= y
    BY <1>1, <1>3, <1>6, MaxOfNaturals
  <2> HIDE DEF k
  <2>2. k \in 1 .. n /\ At(h, k) = h[k] /\ At(h, k).timestamp < ts
    BY <1>1, <1>2, <2>1 DEF Before
  <2>3. ASSUME NEW j \in k + 1 .. n PROVE At(h, j).timestamp >= ts
    <3>1. j \in 1 .. n /\ ~ (k >= j)
      BY <1>1, <2>2
    <3> QED
      BY <1>4, <2>1, <3>1
  <2>4. Reads(h, ts, k)
    BY <1>1, <2>2, <2>3 DEF Reads
  <2>5. PrefixOf(h, ts) = At(h, k)
    BY <1>6, <2>2 DEF PrefixOf, k
  <2> QED
    BY <2>4, <2>5
<1> QED
  BY <1>5, <1>6

(* What a unit of slope up to end is due from what was paid to the indices p. *)
Due(end, p, paid, twp) ==
  IF p.ethPerVe > paid THEN end * (p.ethPerVe - paid) - (p.timeWeighted - twp) ELSE 0

LockAccrual(l, p, e, paid, twp, last) ==
  IF l.autoMax THEN l.amount * SHAREHOLDER_WEIGHT_SCALE * (e - paid)
  ELSE IF l.lockEnd > last THEN slopeScaled(l.amount) * Due(l.lockEnd, p, paid, twp) ELSE 0

LEMMA ScalesAreNat ==
  ASSUME NEW l \in Lock
  PROVE  /\ l.amount * SHAREHOLDER_WEIGHT_SCALE \in Nat /\ slopeScaled(l.amount) \in Nat
         /\ l.lockEnd \in Nat /\ l.autoMax \in BOOLEAN
<1>1. l.amount * SHAREHOLDER_WEIGHT_SCALE \in Nat
  BY VeLocksAssumption DEF Lock
<1> DEFINE a == l.amount * SHAREHOLDER_WEIGHT_SCALE
<1>2. slopeScaled(l.amount) = a \div MAX_LOCK_DURATION
  BY DEF slopeScaled
<1> HIDE DEF a
<1>3. a \in Nat /\ MAX_LOCK_DURATION \in Nat \ {0}
  BY <1>1, VeLocksAssumption DEF a
<1>4. a \div MAX_LOCK_DURATION \in Nat
  BY <1>3
<1> QED
  BY <1>1, <1>2, <1>4 DEF Lock

LEMMA WeightIs ==
  ASSUME NEW l \in Lock, NEW time \in Nat
  PROVE  WeightAt(l, time) = IF l.autoMax THEN l.amount * SHAREHOLDER_WEIGHT_SCALE
                             ELSE IF time < l.lockEnd THEN slopeScaled(l.amount) * (l.lockEnd - time)
                             ELSE 0
<1>1. l.lockEnd \in Nat /\ l.autoMax \in BOOLEAN
  BY ScalesAreNat
<1>2. CASE l.autoMax
  BY <1>2 DEF WeightAt
<1>3. CASE ~ l.autoMax /\ time < l.lockEnd
  BY <1>1, <1>3 DEF WeightAt
<1>4. CASE ~ l.autoMax /\ ~ (time < l.lockEnd)
  BY <1>1, <1>4 DEF WeightAt
<1> QED
  BY <1>2, <1>3, <1>4

LEMMA AccrualIs ==
  ASSUME NEW u, NEW l \in Lock, userLastRewardTs[u] \in Nat,
         NEW p, p = getRewardPrefixBefore(l.lockEnd), p.ethPerVe \in Nat, userEthPerVePaid[u] \in Nat
  PROVE  computeLockAccrual(u, l)
           = LockAccrual(l, p, ethPerVe, userEthPerVePaid[u], userTimeWeightedEthPerVePaid[u],
                         userLastRewardTs[u])
<1> DEFINE slope == slopeScaled(l.amount)
<1>1. slope \in Nat /\ slope * 0 = 0 /\ l.lockEnd \in Nat /\ l.autoMax \in BOOLEAN
  <2>1. slope \in Nat /\ l.lockEnd \in Nat /\ l.autoMax \in BOOLEAN
    BY ScalesAreNat
  <2> QED
    BY <2>1
<1> HIDE DEF slope
<1>2. CASE l.autoMax
  BY <1>2 DEF computeLockAccrual, LockAccrual
<1>3. CASE ~ l.autoMax /\ l.lockEnd > userLastRewardTs[u] /\ p.ethPerVe > userEthPerVePaid[u]
  BY <1>1, <1>3 DEF computeLockAccrual, LockAccrual, Due, slope
<1>4. CASE ~ l.autoMax /\ l.lockEnd > userLastRewardTs[u] /\ ~ (p.ethPerVe > userEthPerVePaid[u])
  <2>1. computeLockAccrual(u, l) = 0
    BY <1>1, <1>4 DEF computeLockAccrual
  <2>2. LockAccrual(l, p, ethPerVe, userEthPerVePaid[u], userTimeWeightedEthPerVePaid[u],
                    userLastRewardTs[u]) = slope * 0
    BY <1>1, <1>4 DEF LockAccrual, Due, slope
  <2> QED
    BY <1>1, <2>1, <2>2
<1>5. CASE ~ l.autoMax /\ ~ (l.lockEnd > userLastRewardTs[u])
  BY <1>1, <1>5 DEF computeLockAccrual, LockAccrual
<1> QED
  BY <1>2, <1>3, <1>4, <1>5

(* Where a user was paid last lies on or before every entry it is due.     *)
Paid(h, e, w, paid, twp) ==
  /\ paid \in Nat /\ twp \in Nat /\ paid <= e
  /\ paid = e => twp = w
  /\ \A k \in 0 .. Len(h) : paid < At(h, k).ethPerVe =>
       At(h, k).timeWeighted - twp <= At(h, k).timestamp * (At(h, k).ethPerVe - paid)

LEMMA DueIsNat ==
  ASSUME NEW time \in Nat, NEW e \in Nat, NEW w \in Nat, NEW paid \in Nat, NEW twp \in Nat,
         NEW end \in Nat, time <= end, paid < e => w - twp <= time * (e - paid)
  PROVE  (IF e > paid THEN end * (e - paid) - (w - twp) ELSE 0) \in Nat
<1> SUFFICES ASSUME e > paid PROVE end * (e - paid) - (w - twp) \in Nat
  OBVIOUS
<1> DEFINE gap == e - paid
           far == w - twp
<1>1. gap \in Nat /\ far \in Int /\ far <= time * gap
  OBVIOUS
<1> HIDE DEF gap, far
<1>2. time * gap <= end * gap /\ end * gap \in Int /\ time * gap \in Int
  BY <1>1, Times
<1>3. end * gap - far \in Nat
  BY <1>1, <1>2
<1> QED
  BY <1>3 DEF gap, far

LEMMA DueIsMore ==
  ASSUME NEW e \in Nat, NEW w \in Nat, NEW paid \in Nat, NEW twp \in Nat, NEW end \in Nat,
         NEW time \in Nat, NEW f \in Nat, NEW x \in Nat,
         paid < e, e < f, time <= end, x - w <= time * (f - e)
  PROVE  end * (e - paid) - (w - twp) <= end * (f - paid) - (x - twp)
<1> DEFINE gap == e - paid
           far == w - twp
           dgap == f - e
           dfar == x - w
<1>1. /\ gap \in Nat /\ far \in Int /\ dgap \in Nat /\ dfar \in Int /\ dfar <= time * dgap
      /\ f - paid = gap + dgap /\ x - twp = far + dfar
  OBVIOUS
<1> HIDE DEF gap, far, dgap, dfar
<1>2. time * dgap <= end * dgap /\ end * (gap + dgap) = end * gap + end * dgap
  BY <1>1, Times
<1>3. end * gap \in Int /\ end * dgap \in Int /\ time * dgap \in Int
  BY <1>1
<1>4. end * gap - far <= end * (gap + dgap) - (far + dfar)
  BY <1>1, <1>2, <1>3
<1> QED
  BY <1>1, <1>4 DEF gap, far

LEMMA DueGrows ==
  ASSUME NEW h \in Seq(Checkpoint), Ordered(h), NEW e, NEW w, NEW paid, NEW twp,
         Paid(h, e, w, paid, twp), NEW end \in Nat,
         NEW j \in 0 .. Len(h), NEW k \in 0 .. Len(h), j <= k,
         k = 0 \/ At(h, k).timestamp <= end
  PROVE  /\ Due(end, At(h, j), paid, twp) \in Nat /\ Due(end, At(h, k), paid, twp) \in Nat
         /\ Due(end, At(h, j), paid, twp) <= Due(end, At(h, k), paid, twp)
<1> DEFINE a == At(h, j)
           b == At(h, k)
<1>1. a \in Checkpoint /\ b \in Checkpoint /\ paid \in Nat /\ twp \in Nat /\ j \in Int /\ k \in Int
  BY AtIsCheckpoint DEF Paid
<1>2. \A c \in Checkpoint : c.timestamp \in Nat /\ c.ethPerVe \in Nat /\ c.timeWeighted \in Nat
  BY DEF Checkpoint
<1>3. j = k \/ Comes(a, b)
  BY <1>1 DEF Ordered
<1>4. ASSUME NEW c \in Checkpoint, c.timestamp <= end,
             paid < c.ethPerVe => c.timeWeighted - twp <= c.timestamp * (c.ethPerVe - paid)
      PROVE  Due(end, c, paid, twp) \in Nat
  <2>1. c.timestamp \in Nat /\ c.ethPerVe \in Nat /\ c.timeWeighted \in Nat
    BY <1>2
  <2>2. (IF c.ethPerVe > paid THEN end * (c.ethPerVe - paid) - (c.timeWeighted - twp) ELSE 0) \in Nat
    BY <1>1, <1>4, <2>1, DueIsNat
  <2> QED
    BY <2>2, Zenon DEF Due
<1>5. a.timestamp <= end /\ b.timestamp <= end
  <2>1. At(h, 0).timestamp = 0
    BY DEF At, Zeroth
  <2>2. b.timestamp <= end
    BY <2>1
  <2>3. a.timestamp <= b.timestamp
    <3>1. a.timestamp \in Nat
      BY <1>1, <1>2, Zenon
    <3>2. CASE j = k
      BY <3>1, <3>2
    <3> QED
      BY <1>3, <3>2 DEF Comes
  <2>4. a.timestamp \in Nat /\ b.timestamp \in Nat
    BY <1>1, <1>2, Zenon
  <2> HIDE DEF a, b
  <2> QED
    BY <2>2, <2>3, <2>4
<1>6. /\ paid < a.ethPerVe => a.timeWeighted - twp <= a.timestamp * (a.ethPerVe - paid)
      /\ paid < b.ethPerVe => b.timeWeighted - twp <= b.timestamp * (b.ethPerVe - paid)
  BY DEF Paid
<1>7. Due(end, a, paid, twp) \in Nat /\ Due(end, b, paid, twp) \in Nat
  <2> HIDE DEF a, b
  <2> QED
    BY <1>1, <1>4, <1>5, <1>6, Zenon
<1>8. Due(end, a, paid, twp) <= Due(end, b, paid, twp)
  <2>1. CASE j = k
    <3>1. Due(end, a, paid, twp) = Due(end, b, paid, twp)
      BY <2>1
    <3> HIDE DEF a, b
    <3> QED
      BY <1>7, <3>1
  <2>2. CASE Comes(a, b) /\ paid < a.ethPerVe
    <3>1. /\ a.ethPerVe \in Nat /\ a.timeWeighted \in Nat
          /\ b.ethPerVe \in Nat /\ b.timeWeighted \in Nat /\ b.timestamp \in Nat
      BY <1>1, <1>2, Zenon
    <3>2. /\ a.ethPerVe < b.ethPerVe
          /\ b.timeWeighted - a.timeWeighted <= b.timestamp * (b.ethPerVe - a.ethPerVe)
      BY <2>2 DEF Comes
    <3> HIDE DEF a, b
    <3>3. end * (a.ethPerVe - paid) - (a.timeWeighted - twp)
            <= end * (b.ethPerVe - paid) - (b.timeWeighted - twp)
      BY <1>1, <1>5, <2>2, <3>1, <3>2, DueIsMore
    <3>4. a.ethPerVe > paid /\ b.ethPerVe > paid
      <4>1. \A x, y, z \in Nat : x < y /\ y < z => y > x /\ z > x
        OBVIOUS
      <4> QED
        BY <1>1, <2>2, <3>1, <3>2, <4>1, Zenon
    <3> QED
      BY <3>3, <3>4, Zenon DEF Due
  <2>3. CASE ~ (paid < a.ethPerVe)
    <3>1. ~ (a.ethPerVe > paid)
      BY <2>3
    <3>2. Due(end, a, paid, twp) = 0
      BY <3>1, Zenon DEF Due
    <3> HIDE DEF a, b
    <3> QED
      BY <1>7, <3>2
  <2> QED
    BY <1>3, <2>1, <2>2, <2>3
<1> QED
  BY <1>7, <1>8

(* A flush of delta, at time: a lock is credited what it earned, or, if its *)
(* end was reached and an entry it needs was evicted, less.                 *)
Flushed(h, g, s, time, e, w, delta, paid, twp, last) ==
  /\ Extends(h, g, time, e, w, delta) /\ Shift(h, g, s)
  /\ Paid(h, e, w, paid, twp)
  /\ last \in Nat /\ last <= time
Credited(l, h, e, paid, twp, last) ==
  LockAccrual(l, PrefixOf(h, l.lockEnd), e, paid, twp, last)

LEMMA AutoMaxEarns ==
  ASSUME NEW h, NEW g, NEW s, NEW time, NEW e, NEW w, NEW delta, NEW paid, NEW twp, NEW last,
         Flushed(h, g, s, time, e, w, delta, paid, twp, last),
         NEW l \in Lock, l.autoMax
  PROVE  /\ Credited(l, h, e, paid, twp, last) \in Nat /\ WeightAt(l, time) \in Nat
         /\ Credited(l, g, e + delta, paid, twp, last)
              = Credited(l, h, e, paid, twp, last) + WeightAt(l, time) * delta
<1> DEFINE c == l.amount * SHAREHOLDER_WEIGHT_SCALE
           x == e - paid
<1>1. c \in Nat /\ x \in Nat /\ delta \in Nat /\ (e + delta) - paid = x + delta /\ time \in Nat
  <2>1. e \in Nat /\ delta \in Nat \ {0} /\ time \in Nat
    BY DEF Flushed, Extends
  <2>2. paid \in Nat /\ paid <= e
    BY DEF Flushed, Paid
  <2>3. c \in Nat
    BY ScalesAreNat
  <2> HIDE DEF c
  <2> QED
    BY <2>1, <2>2, <2>3
<1>2. /\ Credited(l, h, e, paid, twp, last) = c * x
      /\ Credited(l, g, e + delta, paid, twp, last) = c * ((e + delta) - paid)
      /\ WeightAt(l, time) = c
  <2>1. WeightAt(l, time) = c
    BY <1>1, WeightIs
  <2> QED
    BY <2>1, Zenon DEF Credited, LockAccrual
<1> HIDE DEF c, x
<1>3. c * (x + delta) = c * x + c * delta /\ c * x \in Nat
  BY <1>1
<1> QED
  BY <1>1, <1>2, <1>3

LEMMA LiveLockEarns ==
  ASSUME NEW h, NEW g, NEW s, NEW time, NEW e, NEW w, NEW delta, NEW paid, NEW twp, NEW last,
         Flushed(h, g, s, time, e, w, delta, paid, twp, last),
         NEW l \in Lock, ~ l.autoMax, time < l.lockEnd
  PROVE  /\ Credited(l, h, e, paid, twp, last) \in Nat /\ WeightAt(l, time) \in Nat
         /\ Credited(l, g, e + delta, paid, twp, last)
              = Credited(l, h, e, paid, twp, last) + WeightAt(l, time) * delta
<1> DEFINE end == l.lockEnd
           slope == slopeScaled(l.amount)
           m == Len(h)
           n == Len(g)
<1>1. /\ end \in Nat /\ slope \in Nat /\ time \in Nat /\ time < end /\ end > last
      /\ e \in Nat /\ w \in Nat /\ delta \in Nat \ {0} /\ paid \in Nat /\ twp \in Nat /\ paid <= e
      /\ paid = e => twp = w
      /\ h \in Seq(Checkpoint) /\ g \in Seq(Checkpoint) /\ Ordered(h)
  <2>1. /\ e \in Nat /\ w \in Nat /\ delta \in Nat \ {0} /\ time \in Nat
        /\ h \in Seq(Checkpoint) /\ g \in Seq(Checkpoint) /\ Ordered(h)
        /\ last \in Nat /\ last <= time
    BY DEF Flushed, Extends
  <2>2. paid \in Nat /\ paid <= e /\ twp \in Nat /\ (paid = e => twp = w)
    BY DEF Flushed, Paid
  <2>3. end \in Nat /\ slope \in Nat
    BY ScalesAreNat
  <2>4. end > last
    BY <2>1, <2>3
  <2> HIDE DEF slope
  <2> QED
    BY <2>1, <2>2, <2>3, <2>4
<1>2. /\ m \in Nat /\ n \in Nat \ {0}
      /\ At(g, n) = [timestamp |-> time, ethPerVe |-> e + delta, timeWeighted |-> Later(w, delta, time)]
      /\ At(h, m).timestamp <= time /\ At(h, m).ethPerVe = e /\ At(h, m).timeWeighted = w
  BY DEF Flushed, Shift, Extends, EndsAt, At
<1>3. At(h, m).timestamp \in Nat
  <2>1. m \in 0 .. Len(h)
    BY <1>2
  <2> QED
    BY <1>1, <2>1, AtIsCheckpoint DEF Checkpoint
<1>4. PICK k : Reads(h, end, k) /\ PrefixOf(h, end) = At(h, k)
  BY <1>1, PrefixReads
<1>5. PICK j : Reads(g, end, j) /\ PrefixOf(g, end) = At(g, j)
  BY <1>1, PrefixReads
<1>6. k = m
  <2>1. k \in 0 .. m /\ (m \in k + 1 .. m => At(h, m).timestamp >= end)
    BY <1>4 DEF Reads
  <2>2. ~ (At(h, m).timestamp >= end)
    BY <1>1, <1>2, <1>3
  <2> QED
    BY <1>2, <2>1, <2>2
<1>7. j = n
  <2>1. j \in 0 .. n /\ (n \in j + 1 .. n => At(g, n).timestamp >= end)
    BY <1>5 DEF Reads
  <2>2. ~ (At(g, n).timestamp >= end)
    BY <1>1, <1>2
  <2> QED
    BY <1>2, <2>1, <2>2
<1>8. Due(end, At(h, m), paid, twp) \in Nat
  <2>1. m \in 0 .. Len(h) /\ m <= m /\ At(h, m).timestamp <= end
    BY <1>1, <1>2, <1>3
  <2>2. Paid(h, e, w, paid, twp)
    BY DEF Flushed
  <2> QED
    BY <1>1, <2>1, <2>2, DueGrows
<1> DEFINE x == e - paid
           y == w - twp
<1>9. /\ Due(end, At(h, m), paid, twp) = end * x - y
      /\ Due(end, At(g, n), paid, twp) = end * (x + delta) - (y + delta * time)
      /\ x \in Nat /\ y \in Int
  <2>1. x \in Nat /\ y \in Int
    BY <1>1
  <2>2. Due(end, At(h, m), paid, twp) = end * x - y
    <3>1. CASE e > paid
      BY <1>2, <3>1 DEF Due
    <3>2. CASE ~ (e > paid)
      <4>1. x = 0 /\ y = 0
        BY <1>1, <3>2
      <4>2. Due(end, At(h, m), paid, twp) = 0
        BY <1>2, <3>2 DEF Due
      <4> HIDE DEF x, y
      <4> QED
        BY <1>1, <4>1, <4>2
    <3> QED
      BY <3>1, <3>2
  <2>3. e + delta > paid /\ (e + delta) - paid = x + delta
    BY <1>1
  <2>4. (w + delta * time) - twp = y + delta * time
    <3> DEFINE more == delta * time
    <3>1. more \in Int
      BY <1>1
    <3> HIDE DEF more
    <3>2. (w + more) - twp = y + more
      BY <1>1, <3>1
    <3> QED
      BY <3>2 DEF more
  <2>5. Due(end, At(g, n), paid, twp) = end * ((e + delta) - paid) - ((w + delta * time) - twp)
    <3>1. At(g, n).ethPerVe = e + delta /\ At(g, n).timeWeighted = Later(w, delta, time)
      BY <1>2
    <3> QED
      BY <2>3, <3>1, Zenon DEF Due, Later
  <2> HIDE DEF x, y
  <2> QED
    BY <2>1, <2>2, <2>3, <2>4, <2>5
<1>10. /\ Credited(l, h, e, paid, twp, last) = slope * Due(end, At(h, m), paid, twp)
       /\ Credited(l, g, e + delta, paid, twp, last) = slope * Due(end, At(g, n), paid, twp)
       /\ WeightAt(l, time) = slope * (end - time)
  <2>1. PrefixOf(h, end) = At(h, m) /\ PrefixOf(g, end) = At(g, n) /\ ~ l.autoMax
    BY <1>4, <1>5, <1>6, <1>7, Zenon
  <2>2. /\ Credited(l, h, e, paid, twp, last) = slope * Due(end, At(h, m), paid, twp)
        /\ Credited(l, g, e + delta, paid, twp, last) = slope * Due(end, At(g, n), paid, twp)
    BY <1>1, <2>1, Zenon DEF Credited, LockAccrual
  <2>3. WeightAt(l, time) = slope * (end - time)
    BY <1>1, WeightIs, Zenon
  <2> QED
    BY <2>2, <2>3
<1> HIDE DEF end, slope, m, n, x, y
<1>11. slope * (end * (x + delta) - (y + delta * time)) = slope * (end * x - y) + slope * (end - time) * delta
  BY <1>1, <1>9
<1>12. slope * (end - time) \in Nat
  <2>1. end - time \in Nat
    BY <1>1
  <2> QED
    BY <1>1, <2>1
<1>13. slope * Due(end, At(h, m), paid, twp) \in Nat
  BY <1>1, <1>8
<1> QED
  BY <1>9, <1>10, <1>11, <1>12, <1>13

LEMMA ExpiredLockEarns ==
  ASSUME NEW h, NEW g, NEW s, NEW time, NEW e, NEW w, NEW delta, NEW paid, NEW twp, NEW last,
         Flushed(h, g, s, time, e, w, delta, paid, twp, last),
         NEW l \in Lock, ~ l.autoMax, l.lockEnd <= time
  PROVE  /\ Credited(l, h, e, paid, twp, last) \in Nat
         /\ Credited(l, g, e + delta, paid, twp, last) \in Nat
         /\ Credited(l, g, e + delta, paid, twp, last) <= Credited(l, h, e, paid, twp, last)
         /\ Lossless(h, g, s, l.lockEnd) => Credited(l, g, e + delta, paid, twp, last)
                                              = Credited(l, h, e, paid, twp, last)
         /\ WeightAt(l, time) = 0
<1> DEFINE end == l.lockEnd
           slope == slopeScaled(l.amount)
           m == Len(h)
           n == Len(g)
<1>1. /\ end \in Nat /\ slope \in Nat /\ time \in Nat /\ end <= time /\ last \in Nat
      /\ h \in Seq(Checkpoint) /\ g \in Seq(Checkpoint) /\ Ordered(h) /\ Paid(h, e, w, paid, twp)
  BY ScalesAreNat DEF Flushed, Extends
<1>2. /\ m \in Nat /\ n \in Nat \ {0} /\ At(g, n).timestamp = time
      /\ \A q \in 0 .. n - 1 : s[q] \in 0 .. m /\ At(g, q) = At(h, s[q])
      /\ s[0] = 0 /\ 0 \in 0 .. n - 1
      /\ \A p, q \in 0 .. n - 1 : p < q => s[p] < s[q]
  <2>1. /\ m \in Nat /\ n \in Nat \ {0} /\ s[0] = 0
        /\ s \in [0 .. n - 1 -> 0 .. m]
        /\ \A q \in 0 .. n - 1 : At(g, q) = At(h, s[q])
        /\ \A p, q \in 0 .. n - 1 : p < q => s[p] < s[q]
    BY Zenon DEF Flushed, Shift
  <2>2. g[n].timestamp = time
    BY DEF Flushed, Extends
  <2>3. At(g, n) = g[n]
    BY <2>1 DEF At
  <2>4. 0 \in 0 .. n - 1 /\ \A q \in 0 .. n - 1 : s[q] \in 0 .. m
    BY <2>1
  <2>5. At(g, n).timestamp = time
    BY <2>2, <2>3
  <2> QED
    BY <2>1, <2>4, <2>5, Zenon
<1>3. \A q \in 0 .. m : At(h, q).timestamp \in Nat
  BY <1>1, AtIsCheckpoint DEF Checkpoint
<1>4. PICK k : Reads(h, end, k) /\ PrefixOf(h, end) = At(h, k)
  BY <1>1, PrefixReads
<1>5. PICK j : Reads(g, end, j) /\ PrefixOf(g, end) = At(g, j)
  BY <1>1, PrefixReads
<1>6. /\ k \in 0 .. m /\ (k = 0 \/ At(h, k).timestamp < end)
      /\ \A q \in k + 1 .. m : At(h, q).timestamp >= end
  BY <1>4 DEF Reads
<1>7. /\ j \in 0 .. n /\ (j = 0 \/ At(g, j).timestamp < end)
      /\ \A q \in j + 1 .. n : At(g, q).timestamp >= end
  BY <1>5 DEF Reads
<1> HIDE DEF end, m, n
<1>8. j \in 0 .. n - 1 /\ s[j] \in 0 .. m
  <2>1. j # n
    BY <1>1, <1>2, <1>7
  <2>2. j \in 0 .. n - 1
    BY <1>2, <1>7, <2>1
  <2> QED
    BY <1>2, <2>2
<1>9. s[j] <= k
  <2>1. CASE j = 0
    BY <1>2, <1>6, <2>1
  <2>2. CASE j # 0
    <3>1. At(h, s[j]).timestamp < end /\ At(h, s[j]).timestamp \in Nat
      BY <1>2, <1>3, <1>7, <1>8, <2>2
    <3>2. ~ (At(h, s[j]).timestamp >= end)
      BY <1>1, <3>1
    <3>3. s[j] \notin k + 1 .. m
      BY <1>6, <3>2, Zenon
    <3> QED
      BY <1>2, <1>6, <1>8, <3>3
  <2> QED
    BY <2>1, <2>2
<1>10. ASSUME Lossless(h, g, s, end) PROVE s[j] = k
  <2>1. PICK q \in 0 .. n - 1 : s[q] = k
    <3>1. \/ \E q \in 0 .. n - 1 : s[q] = k
          \/ At(h, k).timestamp >= end
          \/ \E q \in k + 1 .. m : At(h, q).timestamp < end
      BY <1>6, <1>10 DEF Lossless, m, n
    <3>2. ASSUME NEW q \in k + 1 .. m, At(h, q).timestamp < end PROVE FALSE
      <4>1. q \in 0 .. m
        BY <1>6
      <4> QED
        BY <1>1, <1>3, <1>6, <3>2, <4>1
    <3>3. CASE At(h, k).timestamp >= end
      <4>1. k = 0
        BY <1>1, <1>3, <1>6, <3>3
      <4> QED
        BY <1>2, <4>1
    <3> QED
      BY <3>1, <3>2, <3>3
  <2>2. q <= j
    <3> SUFFICES ASSUME q > j PROVE FALSE
      BY <1>8
    <3>1. q \in j + 1 .. n /\ 0 < q
      BY <1>2, <1>7
    <3>2. s[0] < s[q]
      BY <1>2, <3>1
    <3>3. k # 0
      BY <1>2, <2>1, <3>2
    <3>4. At(g, q) = At(h, k) /\ At(g, q).timestamp >= end
      BY <1>2, <1>7, <2>1, <3>1
    <3> QED
      BY <1>1, <1>3, <1>6, <3>3, <3>4
  <2>3. k <= s[j]
    <3>1. q = j \/ s[q] < s[j]
      BY <1>2, <1>8, <2>2
    <3> QED
      BY <1>6, <1>8, <2>1, <3>1
  <2> QED
    BY <1>6, <1>8, <1>9, <2>3
<1>11. /\ PrefixOf(h, end) = At(h, k) /\ PrefixOf(g, end) = At(h, s[j])
  BY <1>2, <1>4, <1>5, <1>8, Zenon
<1>12. /\ Due(end, At(h, s[j]), paid, twp) \in Nat /\ Due(end, At(h, k), paid, twp) \in Nat
       /\ Due(end, At(h, s[j]), paid, twp) <= Due(end, At(h, k), paid, twp)
  <2>1. s[j] \in 0 .. Len(h) /\ k \in 0 .. Len(h)
    BY <1>6, <1>8 DEF m
  <2>2. k = 0 \/ At(h, k).timestamp <= end
    BY <1>1, <1>3, <1>6
  <2> QED
    BY <1>1, <1>9, <2>1, <2>2, DueGrows
<1>13. WeightAt(l, time) = 0
  <2>1. ~ (time < l.lockEnd)
    BY <1>1 DEF end
  <2> QED
    BY <1>1, <2>1, WeightIs, Zenon
<1>14. CASE end > last
  <2>1. /\ Credited(l, h, e, paid, twp, last) = slope * Due(end, At(h, k), paid, twp)
        /\ Credited(l, g, e + delta, paid, twp, last) = slope * Due(end, At(h, s[j]), paid, twp)
    BY <1>11, <1>14, Zenon DEF Credited, LockAccrual, end
  <2> HIDE DEF slope
  <2>2. /\ slope * Due(end, At(h, k), paid, twp) \in Nat
        /\ slope * Due(end, At(h, s[j]), paid, twp) \in Nat
        /\ slope * Due(end, At(h, s[j]), paid, twp) <= slope * Due(end, At(h, k), paid, twp)
    BY <1>1, <1>12, Times
  <2>3. Lossless(h, g, s, end) => s[j] = k
    BY <1>10
  <2> QED
    BY <1>13, <2>1, <2>2, <2>3 DEF end
<1>15. CASE ~ (end > last)
  <2>2. Credited(l, h, e, paid, twp, last) = 0 /\ Credited(l, g, e + delta, paid, twp, last) = 0
    BY <1>15, Zenon DEF Credited, LockAccrual, end
  <2> QED
    BY <1>13, <2>2
<1> QED
  BY <1>14, <1>15

(* No entry is further than the indices. *)
LEMMA NoneBeyond ==
  ASSUME NEW h \in Seq(Checkpoint), NEW time, NEW e \in Nat, NEW w, Ordered(h), EndsAt(h, time, e, w),
         NEW k \in 0 .. Len(h)
  PROVE  At(h, k).ethPerVe \in Nat /\ At(h, k).ethPerVe <= e
<1>1. Len(h) \in 0 .. Len(h) /\ Len(h) \in Nat
  BY LenProperties
<1>2. At(h, k).ethPerVe \in Nat
  BY AtIsCheckpoint DEF Checkpoint
<1>3. k = Len(h) \/ Comes(At(h, k), At(h, Len(h)))
  BY <1>1 DEF Ordered
<1>4. At(h, Len(h)).ethPerVe = e
  BY DEF EndsAt
<1>5. At(h, k).ethPerVe = e \/ At(h, k).ethPerVe < e
  BY <1>3, <1>4 DEF Comes
<1> QED
  BY <1>2, <1>5

(* Where nothing was flushed since the last checkpoint, nothing is due. *)
LEMMA NothingDue ==
  ASSUME NEW h \in Seq(Checkpoint), NEW time, NEW e \in Nat, NEW w, Ordered(h), EndsAt(h, time, e, w),
         NEW l \in Lock, NEW twp, NEW last \in Nat
  PROVE  Credited(l, h, e, e, twp, last) = 0
<1>1. PICK k : Reads(h, l.lockEnd, k) /\ PrefixOf(h, l.lockEnd) = At(h, k)
  BY PrefixReads, ScalesAreNat
<1>2. At(h, k).ethPerVe \in Nat /\ At(h, k).ethPerVe <= e
  <2>1. k \in 0 .. Len(h)
    BY <1>1 DEF Reads
  <2> QED
    BY <2>1, NoneBeyond
<1>3. Due(l.lockEnd, At(h, k), e, twp) = 0
  BY <1>2 DEF Due
<1>4. /\ l.amount * SHAREHOLDER_WEIGHT_SCALE \in Nat /\ slopeScaled(l.amount) \in Nat
      /\ l.lockEnd \in Nat /\ l.autoMax \in BOOLEAN /\ e - e = 0
  BY ScalesAreNat
<1> DEFINE c == l.amount * SHAREHOLDER_WEIGHT_SCALE
           slope == slopeScaled(l.amount)
<1>5. c * 0 = 0 /\ slope * 0 = 0
  <2> HIDE DEF c, slope
  <2> QED
    BY <1>4 DEF c, slope
<1>7. CASE l.autoMax
  <2>1. Credited(l, h, e, e, twp, last) = c * (e - e)
    BY <1>7, Zenon DEF Credited, LockAccrual
  <2> QED
    BY <1>4, <1>5, <2>1
<1>8. CASE ~ l.autoMax /\ l.lockEnd > last
  <2>1. Credited(l, h, e, e, twp, last) = slope * Due(l.lockEnd, At(h, k), e, twp)
    BY <1>1, <1>8, Zenon DEF Credited, LockAccrual
  <2> QED
    BY <1>3, <1>5, <2>1
<1>9. CASE ~ l.autoMax /\ ~ (l.lockEnd > last)
  BY <1>9, Zenon DEF Credited, LockAccrual
<1> QED
  BY <1>7, <1>8, <1>9

-----------------------------------------------------------------------------
(* Part 6: the history of the contract.                                    *)

HistoryInv ==
  /\ now \in Nat /\ ethPerVe \in Nat /\ ethPerVeTimeWeighted \in Nat
  /\ RingInv /\ Ordered(History)
  /\ EndsAt(History, now, ethPerVe, ethPerVeTimeWeighted)

(* Whether the history reaches back to before end. *)
Reaches(end) == RingFull => RingHistory[1].timestamp < end

LEMMA OldestReads ==
  ASSUME NEW a, NEW o, NEW d, WellStored(a, o, d), Len(o) = MAX_OVERFLOW_CHECKPOINTS
  PROVE  /\ Unrolled(o, d)[1] = InOrder(a, o, d)[Len(a) + 1]
         /\ Len(a) \in Nat /\ Len(a) + 1 <= Len(InOrder(a, o, d))
<1>1. 1 \in 1 .. Len(o) /\ Len(a) \in Nat /\ Len(o) >= 1 /\ Len(o) \in Nat
  BY LenProperties, RoyaltiesAssumption DEF WellStored
<1> QED
  BY <1>1, HistoryReads

LEMMA OldestIs ==
  ASSUME RingInv, RingFull
  PROVE  /\ RingHistory[1] = History[Len(rewardCheckpoints) + 1]
         /\ Len(rewardCheckpoints) \in Nat /\ Len(rewardCheckpoints) + 1 <= Len(History)
<1>1. WellStored(rewardCheckpoints, overflowCheckpoints, overflowRingHead)
  BY DEF RingInv
<1>2. Len(overflowCheckpoints) = MAX_OVERFLOW_CHECKPOINTS
  BY DEF RingFull
<1> QED
  BY <1>1, <1>2, OldestReads, HistoryIs

LEMMA OldestWillBe ==
  ASSUME RingInv', RingFull'
  PROVE  RingHistory'[1] = History'[Len(rewardCheckpoints') + 1]
<1>1. WellStored(rewardCheckpoints', overflowCheckpoints', overflowRingHead')
  BY DEF RingInv
<1>2. Len(overflowCheckpoints') = MAX_OVERFLOW_CHECKPOINTS
  BY DEF RingFull
<1> QED
  BY <1>1, <1>2, OldestReads, HistoryIs

LEMMA HistoryIsSeq ==
  /\ RingInv => History \in Seq(Checkpoint)
  /\ RingInv' => History' \in Seq(Checkpoint)
BY HistoryIs, HistoryReads DEF RingInv

(* Storing a checkpoint of now keeps, of what the history reached back to  *)
(* afterwards, all it had.                                                 *)
Stores(s) ==
  /\ RingInv' /\ Shift(History, History', s)
  /\ \A end \in Nat : end <= now /\ Reaches(end)' => Lossless(History, History', s, end) /\ Reaches(end)

LEMMA StoresInArray ==
  ASSUME RingInv, NEW cp \in Checkpoint, cp.timestamp = now, now \in Nat, ~ ArrayFull, StoreInArray(cp)
  PROVE  (\E s : Stores(s)) /\ History'[Len(History')] = cp
<1>1. /\ RingInv' /\ ~ RingFull /\ ~ RingFull'
      /\ History'[Len(History')] = cp
      /\ Appends(History, History') \/ Replaces(History, History', now)
  BY StoredInArray
<1>2. History \in Seq(Checkpoint) /\ History' \in Seq(Checkpoint)
  BY <1>1, HistoryIsSeq
<1>3. \E s : /\ Shift(History, History', s)
             /\ \A end \in Nat : end <= now => Lossless(History, History', s, end)
  <2>1. CASE Appends(History, History')
    <3>1. PICK s : Shift(History, History', s) /\ \A end : Lossless(History, History', s, end)
      BY <1>2, <2>1, ShiftOfAppend
    <3> QED
      BY <3>1
  <2>2. CASE Replaces(History, History', now)
    BY <1>2, <2>2, ShiftOfReplacement
  <2> QED
    BY <1>1, <2>1, <2>2
<1> QED
  BY <1>1, <1>3 DEF Stores, Reaches

LEMMA StoresInRing ==
  ASSUME HistoryInv, NEW cp \in Checkpoint, cp.timestamp = now, ArrayFull, StoreInRing(cp)
  PROVE  (\E s : Stores(s)) /\ History'[Len(History')] = cp
<1> DEFINE h == History
           g == History'
           m == Len(rewardCheckpoints)
<1>1. /\ RingInv' /\ UNCHANGED rewardCheckpoints
      /\ g[Len(g)] = cp
      /\ \/ ~ RingFull /\ Appends(h, g)
         \/ (RingFull' <=> RingFull) /\ Replaces(h, g, now)
         \/ RingFull /\ RingFull' /\ Evicts(h, g, m)
  BY StoredInRing DEF HistoryInv
<1>2. h \in Seq(Checkpoint) /\ g \in Seq(Checkpoint) /\ now \in Nat /\ RingInv
  BY <1>1, HistoryIsSeq DEF HistoryInv
<1>3. RingFull => RingHistory[1] = h[m + 1] /\ m \in Nat /\ m + 1 <= Len(h)
  BY <1>2, OldestIs
<1>4. RingFull' => RingHistory'[1] = g[m + 1]
  BY <1>1, OldestWillBe
<1>5. \A end : Reaches(end)' => (RingFull' => g[m + 1].timestamp < end)
  BY <1>4 DEF Reaches
<1>6. \A end : (RingFull => h[m + 1].timestamp < end) => Reaches(end)
  BY <1>3 DEF Reaches
<1> HIDE DEF h, g, m
<1>7. ASSUME NEW end \in Nat, end <= now, g[m + 1].timestamp < end PROVE m + 1 # Len(g)
  BY <1>1, <1>2, <1>7
<1>8. CASE ~ RingFull /\ Appends(h, g)
  <2>1. PICK s : Shift(h, g, s) /\ \A end : Lossless(h, g, s, end)
    BY <1>2, <1>8, ShiftOfAppend
  <2>2. \A end : Reaches(end)
    BY <1>6, <1>8
  <2> QED
    BY <1>1, <2>1, <2>2 DEF Stores, h, g
<1>9. CASE (RingFull' <=> RingFull) /\ Replaces(h, g, now)
  <2>1. PICK s : Shift(h, g, s) /\ \A end \in Nat : end <= now => Lossless(h, g, s, end)
    BY <1>2, <1>9, ShiftOfReplacement
  <2>2. ASSUME NEW end \in Nat, end <= now, Reaches(end)' PROVE Reaches(end)
    <3> SUFFICES ASSUME RingFull PROVE h[m + 1].timestamp < end
      BY <1>6
    <3>1. g[m + 1].timestamp < end
      BY <1>5, <1>9, <2>2
    <3>2. m + 1 # Len(g) /\ Len(g) = Len(h) /\ Len(h) \in Nat
      BY <1>2, <1>7, <1>9, <2>2, <3>1, LenProperties DEF Replaces
    <3>3. m + 1 \in 1 .. Len(h) - 1
      BY <1>3, <3>2
    <3> QED
      BY <1>9, <3>1, <3>3 DEF Replaces
  <2> QED
    BY <1>1, <2>1, <2>2 DEF Stores, h, g
<1>10. CASE RingFull /\ RingFull' /\ Evicts(h, g, m)
  <2>1. g[Len(g)].timestamp = now
    BY <1>1
  <2>2. PICK s : /\ Shift(h, g, s)
                 /\ \A end \in Nat : end <= now /\ g[m + 1].timestamp < end => Lossless(h, g, s, end)
    BY <1>2, <1>10, <2>1, ShiftOfEviction
  <2>3. ASSUME NEW end \in Nat, end <= now, Reaches(end)' PROVE Lossless(h, g, s, end) /\ Reaches(end)
    <3>1. g[m + 1].timestamp < end
      BY <1>5, <1>10, <2>3
    <3>2. m + 1 # Len(g) /\ Len(g) = Len(h) /\ Len(h) \in Nat /\ m \in Nat \ {0}
      BY <1>2, <1>7, <1>10, <2>3, <3>1, LenProperties DEF Evicts
    <3>3. m + 1 \in m + 1 .. Len(h) - 1 /\ m + 1 \in 0 .. Len(h) /\ m + 2 \in 0 .. Len(h) /\ m + 1 < m + 2
      BY <1>3, <1>10, <3>2
    <3>4. g[m + 1] = h[m + 1 + 1] /\ m + 1 + 1 = m + 2
      BY <1>10, <3>2, <3>3 DEF Evicts
    <3>5. Comes(At(h, m + 1), At(h, m + 2)) /\ At(h, m + 1) = h[m + 1] /\ At(h, m + 2) = h[m + 2]
      <4>1. Ordered(h)
        BY DEF HistoryInv, h
      <4>2. m + 1 # 0 /\ m + 2 # 0
        BY <3>2
      <4> QED
        BY <3>3, <4>1, <4>2 DEF Ordered, At
    <3>6. At(h, m + 1) \in Checkpoint /\ At(h, m + 2) \in Checkpoint
      BY <1>2, <3>3, AtIsCheckpoint
    <3>7. h[m + 1].timestamp <= h[m + 2].timestamp /\ h[m + 1].timestamp \in Nat /\ h[m + 2].timestamp \in Nat
      BY <3>5, <3>6 DEF Comes, Checkpoint
    <3>8. h[m + 1].timestamp < end
      BY <3>1, <3>4, <3>7
    <3> QED
      BY <1>6, <2>2, <2>3, <3>1, <3>8
  <2> QED
    BY <1>1, <2>2, <2>3 DEF Stores, h, g
<1>11. g[Len(g)] = cp
  BY <1>1
<1> QED
  BY <1>1, <1>8, <1>9, <1>10, <1>11 DEF g

(* What a flush that indexes does to the history. *)
LEMMA IndexStores ==
  ASSUME HistoryInv, NEW pending, NEW weight, NEW delta \in Nat \ {0},
         delta = (pending * SHAREHOLDER_ACC) \div weight, Index(pending, weight), UNCHANGED now
  PROVE  /\ HistoryInv'
         /\ ethPerVe' = ethPerVe + delta
         /\ ethPerVeTimeWeighted' = Later(ethPerVeTimeWeighted, delta, now)
         /\ Extends(History, History', now, ethPerVe, ethPerVeTimeWeighted, delta)
         /\ \E s : Stores(s)
<1> DEFINE w == Later(ethPerVeTimeWeighted, delta, now)
           cp == [timestamp |-> now, ethPerVe |-> ethPerVe + delta, timeWeighted |-> w]
<1>1. now \in Nat /\ ethPerVe \in Nat /\ ethPerVeTimeWeighted \in Nat /\ w \in Nat /\ ethPerVe + delta \in Nat
  <2>1. now \in Nat /\ ethPerVe \in Nat /\ ethPerVeTimeWeighted \in Nat
    BY DEF HistoryInv
  <2>2. delta * now \in Nat
    BY <2>1
  <2> QED
    BY <2>1, <2>2 DEF Later
<1>2. /\ ethPerVe' = ethPerVe + delta /\ ethPerVeTimeWeighted' = w
      /\ storeRewardCheckpoint(cp)
  BY DEF Index, Later
<1>3. cp \in Checkpoint /\ cp.timestamp = now
  BY <1>1 DEF Checkpoint
<1>4. (\E s : Stores(s)) /\ History'[Len(History')] = cp
  <2> HIDE DEF cp
  <2>1. CASE ArrayFull
    BY <1>2, <1>3, <2>1, StoresInRing DEF storeRewardCheckpoint
  <2>2. CASE ~ ArrayFull
    BY <1>1, <1>2, <1>3, <2>2, StoresInArray DEF storeRewardCheckpoint, HistoryInv
  <2> QED
    BY <2>1, <2>2
<1>5. PICK s : Stores(s)
  BY <1>4
<1>6. Extends(History, History', now, ethPerVe, ethPerVeTimeWeighted, delta)
  <2>1. History \in Seq(Checkpoint) /\ History' \in Seq(Checkpoint)
    BY <1>5, HistoryIsSeq DEF Stores, HistoryInv
  <2> QED
    BY <1>1, <1>4, <2>1 DEF Extends, HistoryInv
<1>7. Ordered(History') /\ EndsAt(History', now, ethPerVe + delta, w)
  BY <1>5, <1>6, OrderStays DEF Stores
<1>8. HistoryInv'
  <2>1. RingInv'
    BY <1>5 DEF Stores
  <2> HIDE DEF w
  <2> QED
    BY <1>1, <1>2, <1>7, <2>1 DEF HistoryInv
<1> QED
  BY <1>2, <1>4, <1>6, <1>8

-----------------------------------------------------------------------------
(* Part 7: what steps there are, and what they do to a user's rewards.     *)

(* Where a user was checkpointed last: before now, and not ahead of the    *)
(* indices.                                                                *)
PaidOf(h, time, e, w, u) ==
  /\ Paid(h, e, w, userEthPerVePaid[u], userTimeWeightedEthPerVePaid[u])
  /\ userLastRewardTs[u] \in Nat /\ userLastRewardTs[u] <= time

(* Everything the accrual of a user is computed from.                      *)
SourcesInv ==
  /\ LocksTypeOK /\ HistoryInv
  /\ userEthPerVePaid \in [Users -> Nat] /\ userTimeWeightedEthPerVePaid \in [Users -> Nat]
  /\ userLastRewardTs \in [Users -> Nat]
  /\ \A u \in Users : PaidOf(History, now, ethPerVe, ethPerVeTimeWeighted, u)

Flushes(pending, drift) ==
  /\ pending \in Int /\ drift \in Drifts
  /\ LiveWeight + drift \in Nat \ {0}
  /\ (pending * SHAREHOLDER_ACC) \div (LiveWeight + drift) > 0
  /\ Index(pending, LiveWeight + drift)
  /\ UNCHANGED <<now, locks, Unpaid>>

Checkpoints(u) ==
  /\ \E payout : Crystallise(u, payout)
  /\ UNCHANGED locks \/ LockStep(u)
  /\ UNCHANGED now

Quiet ==
  /\ UNCHANGED <<locks, indexVars, indexedEthOwed, userVars>>
  /\ now' = now \/ now' = now + 1

LEMMA FlushesOrNot ==
  ASSUME NEW pending \in Int, NEW bypass \in BOOLEAN, flushPending(pending, bypass),
         UNCHANGED <<now, locks, Unpaid>>
  PROVE  (\E drift : Flushes(pending, drift)) \/ Quiet
<1>1. PICK drift \in Drifts, fresh \in Freshness :
        IF CanIndex(pending, LiveWeight + drift, bypass, fresh)
        THEN Index(pending, LiveWeight + drift)
        ELSE /\ pendingShareholderETH' = pending
             /\ UNCHANGED <<indexVars, indexedEthOwed, earned>>
  BY Zenon DEF flushPending
<1>2. CASE CanIndex(pending, LiveWeight + drift, bypass, fresh)
  <2>1. Index(pending, LiveWeight + drift)
    BY <1>1, <1>2, Zenon
  <2> QED
    BY <1>2, <2>1, Zenon DEF Flushes, CanIndex
<1>3. CASE ~ CanIndex(pending, LiveWeight + drift, bypass, fresh)
  BY <1>1, <1>3, Zenon DEF Quiet, Unpaid, userVars
<1> QED
  BY <1>2, <1>3

LEMMA StepsAre ==
  ASSUME BucketsInv, LocksTypeOK, [Next]_vars
  PROVE  \/ \E pending, drift : Flushes(pending, drift)
         \/ \E u \in Users : Checkpoints(u)
         \/ Quiet
<1> USE DEF bucketVars, counters
<1>1. ASSUME NEW v \in Allocations, OnTakeover(v)
      PROVE  (\E pending, drift : Flushes(pending, drift)) \/ Quiet
  <2>1. pendingShareholderETH + v \in Int
    BY RoyaltiesAssumption DEF BucketsInv
  <2>2. flushPending(pendingShareholderETH + v, TRUE) /\ UNCHANGED <<now, locks, Unpaid>>
    BY <1>1 DEF OnTakeover
  <2> QED
    BY <2>1, <2>2, FlushesOrNot
<1>2. ASSUME FlushPendingShareholderETH
      PROVE  (\E pending, drift : Flushes(pending, drift)) \/ Quiet
  <2>1. pendingShareholderETH \in Int
    BY DEF BucketsInv
  <2>2. flushPending(pendingShareholderETH, FALSE) /\ UNCHANGED <<now, locks, Unpaid>>
    BY <1>2 DEF FlushPendingShareholderETH
  <2> QED
    BY <2>1, <2>2, FlushesOrNot
<1>3. ASSUME NEW u \in Users, CheckpointUser(u) \/ Claim(u) PROVE Checkpoints(u)
  BY <1>3 DEF CheckpointUser, Claim, Checkpoints
<1>4. ASSUME NEW u \in Users, EnterFurnace(u) \/ ClaimToLock(u) PROVE Checkpoints(u)
  BY <1>4, EntryIsLockStep DEF EnterFurnace, ClaimToLock, AroundLockChange, Checkpoints
<1>5. ASSUME NEW u \in Users, ChangeLock(u) PROVE Checkpoints(u)
  <2>1. LockStep(u)
    BY <1>5, ChangeIsLockStep
  <2>2. Crystallise(u, 0) /\ UNCHANGED now
    BY <1>5 DEF ChangeLock, AroundLockChange
  <2> QED
    BY <2>1, <2>2 DEF Checkpoints
<1>6. ASSUME NEW u \in Users, LeaveLock(u) PROVE Checkpoints(u)
  <2>1. LockStep(u)
    BY <1>6, LeaveIsLockStep
  <2>2. Crystallise(u, 0) /\ UNCHANGED now
    BY <1>6 DEF LeaveLock, AroundLockChange
  <2> QED
    BY <2>1, <2>2 DEF Checkpoints
<1>7. ASSUME NEW u \in Users, PinUserObservedMin(u) PROVE Quiet
  BY <1>7 DEF PinUserObservedMin, Quiet
<1>8. ASSUME NEW c \in SUBSET Users, NEW e \in BOOLEAN, RecomputeGlobalWatermark(c, e) PROVE Quiet
  BY <1>8 DEF RecomputeGlobalWatermark, Quiet
<1>9. ASSUME NEW e \in Raises, ForceSetOldestObserved(e) PROVE Quiet
  BY <1>9 DEF ForceSetOldestObserved, Quiet
<1>10. ASSUME NEW v \in ForcedEth, ForceEth(v) PROVE Quiet
  BY <1>10 DEF ForceEth, Quiet
<1>11. ASSUME SweepDust PROVE Quiet
  BY <1>11 DEF SweepDust, Quiet
<1>12. ASSUME Tick PROVE Quiet
  BY <1>12 DEF Tick, Quiet
<1>13. ASSUME UNCHANGED vars PROVE Quiet
  BY <1>13 DEF vars, Quiet
<1> QED
  BY <1>1, <1>2, <1>3, <1>4, <1>5, <1>6, <1>7, <1>8, <1>9, <1>10, <1>11, <1>12, <1>13 DEF Next

(* Who is paid up to some indices stays so when a flush raises them ...     *)
LEMMA PaidNext ==
  ASSUME NEW e \in Nat, NEW w \in Nat, NEW paid \in Nat, NEW twp \in Nat, NEW time \in Nat,
         NEW delta \in Nat, paid <= e, w - twp <= time * (e - paid)
  PROVE  Later(w, delta, time) - twp <= time * ((e + delta) - paid)
<1> DEFINE gap == e - paid
           far == w - twp
           more == delta * time
<1>1. gap \in Nat /\ far \in Int /\ more \in Nat /\ (e + delta) - paid = gap + delta
      /\ time * gap \in Int /\ far <= time * gap
  OBVIOUS
<1>2. Later(w, delta, time) - twp = far + more
  <2>1. more \in Nat
    BY <1>1
  <2>2. Later(w, delta, time) = w + more
    BY DEF Later
  <2> HIDE DEF more
  <2> QED
    BY <2>1, <2>2
<1>3. time * (gap + delta) = time * gap + more
  <2> HIDE DEF gap, far
  <2> QED
    BY <1>1
<1> HIDE DEF gap, far, more
<1> QED
  BY <1>1, <1>2, <1>3

LEMMA PaidStays ==
  ASSUME NEW h, NEW g, NEW s, NEW time, NEW e, NEW w, NEW delta, NEW paid, NEW twp,
         Extends(h, g, time, e, w, delta), Shift(h, g, s), Paid(h, e, w, paid, twp)
  PROVE  Paid(g, e + delta, Later(w, delta, time), paid, twp)
<1>1. /\ e \in Nat /\ w \in Nat /\ delta \in Nat \ {0} /\ time \in Nat
      /\ paid \in Nat /\ twp \in Nat /\ paid <= e /\ (paid = e => twp = w)
      /\ h \in Seq(Checkpoint)
  BY DEF Extends, Paid
<1>2. Len(h) \in Nat /\ Len(g) \in Nat \ {0}
  BY DEF Shift
<1>3. w - twp <= time * (e - paid)
  <2>1. CASE paid = e
    BY <1>1, <2>1
  <2>2. CASE paid < e
    <3>1. Len(h) \in 0 .. Len(h)
      BY <1>2
    <3>2. /\ At(h, Len(h)).ethPerVe = e /\ At(h, Len(h)).timeWeighted = w
          /\ At(h, Len(h)).timestamp <= time /\ At(h, Len(h)).timestamp \in Nat
      BY <1>1, <3>1, AtIsCheckpoint DEF Extends, EndsAt, Checkpoint
    <3> DEFINE ts == At(h, Len(h)).timestamp
               gap == e - paid
               far == w - twp
    <3>3. gap \in Nat /\ far \in Int /\ ts \in Nat /\ ts <= time
      BY <1>1, <3>2
    <3>4. far <= ts * gap
      BY <2>2, <3>1, <3>2 DEF Paid
    <3> HIDE DEF ts, gap, far
    <3>5. ts * gap <= time * gap /\ ts * gap \in Int /\ time * gap \in Int
      BY <1>1, <3>3, Times
    <3>6. far <= time * gap
      BY <3>3, <3>4, <3>5
    <3> QED
      BY <3>6 DEF gap, far
  <2> QED
    BY <1>1, <2>1, <2>2
<1>4. Later(w, delta, time) - twp <= time * ((e + delta) - paid)
  BY <1>1, <1>3, PaidNext
<1>5. ASSUME NEW k \in 0 .. Len(g), paid < At(g, k).ethPerVe
      PROVE  At(g, k).timeWeighted - twp <= At(g, k).timestamp * (At(g, k).ethPerVe - paid)
  <2>1. CASE k \in 0 .. Len(g) - 1
    <3>1. s[k] \in 0 .. Len(h) /\ At(g, k) = At(h, s[k])
      BY <2>1 DEF Shift
    <3> QED
      BY <1>5, <3>1 DEF Paid
  <2>2. CASE k = Len(g)
    <3>1. At(g, k) = g[Len(g)]
      BY <1>2, <2>2 DEF At
    <3>2. /\ At(g, k).timestamp = time /\ At(g, k).ethPerVe = e + delta
          /\ At(g, k).timeWeighted = Later(w, delta, time)
      BY <3>1 DEF Extends
    <3> QED
      BY <1>4, <3>2
  <2> QED
    BY <1>2, <2>1, <2>2
<1>6. paid <= e + delta /\ paid # e + delta
  BY <1>1
<1> QED
  BY <1>1, <1>5, <1>6, Zenon DEF Paid

(* ... and who is paid up to where the history ends, is.                   *)
LEMMA PaidUp ==
  ASSUME NEW h \in Seq(Checkpoint), NEW time, NEW e \in Nat, NEW w \in Nat, Ordered(h),
         EndsAt(h, time, e, w)
  PROVE  Paid(h, e, w, e, w)
<1>1. ASSUME NEW k \in 0 .. Len(h) PROVE ~ (e < At(h, k).ethPerVe)
  <2>1. At(h, k).ethPerVe \in Nat /\ At(h, k).ethPerVe <= e
    BY NoneBeyond
  <2> QED
    BY <2>1
<1> QED
  BY <1>1 DEF Paid

(* What the code takes for the time of the last checkpoint is that.        *)
LEMMA LatestIs ==
  ASSUME RingInv
  PROVE  latestRewardTimestamp = At(History, Len(History)).timestamp
<1> DEFINE a == rewardCheckpoints
           o == overflowCheckpoints
           d == overflowRingHead
<1>1. WellStored(a, o, d) /\ History = InOrder(a, o, d)
  BY HistoryIs DEF RingInv
<1>2. /\ a \in Seq(Checkpoint) /\ o \in Seq(Checkpoint) /\ Len(a) \in Nat /\ Len(o) \in Nat
      /\ d \in Nat /\ (d # 0 => d <= Len(o))
  BY <1>1, LenProperties, RoyaltiesAssumption DEF WellStored
<1>3. (a = <<>> <=> Len(a) = 0) /\ (o = <<>> <=> Len(o) = 0)
  BY <1>2, EmptySeq
<1>4. Len(InOrder(a, o, d)) = Len(a) + Len(o)
  BY <1>1, HistoryReads
<1>5. CASE o # <<>>
  <2>1. InOrder(a, o, d)[Len(a) + Len(o)] = o[IF Len(o) + d <= Len(o) THEN Len(o) + d ELSE Len(o) + d - Len(o)]
    <3>1. Len(o) \in 1 .. Len(o)
      BY <1>2, <1>3, <1>5
    <3> QED
      BY <1>1, <3>1, HistoryReads, RingReads
  <2>2. LastWritten = IF Len(o) + d <= Len(o) THEN Len(o) + d ELSE Len(o) + d - Len(o)
    BY <1>2 DEF LastWritten
  <2>3. latestRewardTimestamp = o[LastWritten].timestamp
    BY <1>5 DEF latestRewardTimestamp
  <2>4. Len(a) + Len(o) # 0
    BY <1>2, <1>3, <1>5
  <2> HIDE DEF a, o, d
  <2> QED
    BY <1>1, <1>4, <2>1, <2>2, <2>3, <2>4 DEF At
<1>6. CASE o = <<>> /\ a # <<>>
  <2>1. Len(o) = 0 /\ Len(a) \in 1 .. Len(a) /\ Len(a) + Len(o) = Len(a) /\ Len(a) # 0
    BY <1>2, <1>3, <1>6
  <2>2. InOrder(a, o, d)[Len(a)] = a[Len(a)]
    BY <1>1, <2>1, HistoryReads
  <2>3. latestRewardTimestamp = a[Len(a)].timestamp
    BY <1>6 DEF latestRewardTimestamp
  <2> HIDE DEF a, o, d
  <2> QED
    BY <1>1, <1>4, <2>1, <2>2, <2>3 DEF At
<1>7. CASE o = <<>> /\ a = <<>>
  <2>1. Len(InOrder(a, o, d)) = 0
    BY <1>2, <1>3, <1>4, <1>7
  <2>2. latestRewardTimestamp = 0
    BY <1>7 DEF latestRewardTimestamp
  <2> HIDE DEF a, o, d
  <2> QED
    BY <1>1, <2>1, <2>2 DEF At, Zeroth
<1> QED
  BY <1>5, <1>6, <1>7

(* A flush that indexes, with what it adds to the index and where it       *)
(* carries the entries of the history.                                     *)
FlushOf(delta, weight, s) ==
  /\ delta \in Nat \ {0} /\ weight \in Nat \ {0}
  /\ HistoryInv'
  /\ ethPerVe' = ethPerVe + delta
  /\ ethPerVeTimeWeighted' = Later(ethPerVeTimeWeighted, delta, now)
  /\ Extends(History, History', now, ethPerVe, ethPerVeTimeWeighted, delta)
  /\ Stores(s)
  /\ earned' = [u \in Users |-> earned[u] + UserWeight(u) * delta]
  /\ indexedEthOwed' = indexedEthOwed + ((delta * weight) \div SHAREHOLDER_ACC)
  /\ flushes' = flushes + 1
  /\ UNCHANGED <<now, locks, Unpaid>>

LEMMA FlushIs ==
  ASSUME SourcesInv, NEW pending, NEW drift, Flushes(pending, drift)
  PROVE  \E delta, s : FlushOf(delta, LiveWeight + drift, s)
<1> DEFINE weight == LiveWeight + drift
           delta == (pending * SHAREHOLDER_ACC) \div weight
<1>1. /\ Index(pending, weight) /\ UNCHANGED <<now, locks, Unpaid>> /\ delta > 0
      /\ pending \in Int /\ weight \in Nat \ {0}
  BY DEF Flushes
<1>2. delta \in Nat \ {0}
  <2> DEFINE amount == pending * SHAREHOLDER_ACC
  <2>1. amount \in Int /\ weight \in Nat \ {0}
    BY <1>1, RoyaltiesAssumption
  <2> HIDE DEF weight, amount
  <2>2. amount \div weight \in Int
    BY <2>1
  <2> QED
    BY <1>1, <2>2 DEF amount
<1>3. /\ earned' = [u \in Users |-> earned[u] + UserWeight(u) * delta]
      /\ indexedEthOwed' = indexedEthOwed + ((delta * weight) \div SHAREHOLDER_ACC)
      /\ flushes' = flushes + 1
  BY <1>1 DEF Index
<1> HIDE DEF delta, weight
<1>4. /\ HistoryInv'
      /\ ethPerVe' = ethPerVe + delta
      /\ ethPerVeTimeWeighted' = Later(ethPerVeTimeWeighted, delta, now)
      /\ Extends(History, History', now, ethPerVe, ethPerVeTimeWeighted, delta)
      /\ \E s : Stores(s)
  <2>1. HistoryInv /\ UNCHANGED now
    BY <1>1 DEF SourcesInv
  <2> QED
    BY <1>1, <1>2, <2>1, IndexStores DEF delta
<1>5. PICK s : Stores(s)
  BY <1>4
<1>6. FlushOf(delta, weight, s)
  BY <1>1, <1>2, <1>3, <1>4, <1>5, Zenon DEF FlushOf
<1> QED
  BY <1>6 DEF weight

(* Every step keeps the sources of an accrual what they should be.         *)
LEMMA IndexKeepsSources ==
  ASSUME SourcesInv, NEW pending, NEW drift, Flushes(pending, drift)
  PROVE  SourcesInv'
<1>1. PICK delta, s : FlushOf(delta, LiveWeight + drift, s)
  BY FlushIs
<1>2. /\ HistoryInv' /\ ethPerVe' = ethPerVe + delta
      /\ ethPerVeTimeWeighted' = Later(ethPerVeTimeWeighted, delta, now)
      /\ Extends(History, History', now, ethPerVe, ethPerVeTimeWeighted, delta)
      /\ Shift(History, History', s)
      /\ UNCHANGED <<now, locks, Unpaid>>
  BY <1>1 DEF FlushOf, Stores
<1>3. ASSUME NEW u \in Users PROVE PaidOf(History', now, ethPerVe', ethPerVeTimeWeighted', u)
  <2>1. /\ Paid(History, ethPerVe, ethPerVeTimeWeighted, userEthPerVePaid[u], userTimeWeightedEthPerVePaid[u])
        /\ userLastRewardTs[u] \in Nat /\ userLastRewardTs[u] <= now
    BY DEF SourcesInv, PaidOf
  <2>2. Paid(History', ethPerVe + delta, Later(ethPerVeTimeWeighted, delta, now),
             userEthPerVePaid[u], userTimeWeightedEthPerVePaid[u])
    BY <1>2, <2>1, PaidStays
  <2> QED
    BY <1>2, <2>1, <2>2 DEF PaidOf
<1>4. /\ UNCHANGED <<now, userEthPerVePaid, userTimeWeightedEthPerVePaid, userLastRewardTs>>
      /\ LocksTypeOK'
  BY <1>2 DEF SourcesInv, LocksTypeOK, Unpaid
<1>5. \A u \in Users : PaidOf(History, now, ethPerVe, ethPerVeTimeWeighted, u)'
  BY <1>3, <1>4 DEF PaidOf
<1> QED
  BY <1>2, <1>4, <1>5 DEF SourcesInv

LEMMA CheckpointKeepsSources ==
  ASSUME SourcesInv, NEW u \in Users, Checkpoints(u)
  PROVE  SourcesInv'
<1>1. PICK payout : Crystallise(u, payout)
  BY DEF Checkpoints
<1>2. /\ UNCHANGED <<now, ethPerVe, ethPerVeTimeWeighted, rewardCheckpoints, overflowCheckpoints,
                     overflowRingHead>>
      /\ userEthPerVePaid' = [userEthPerVePaid EXCEPT ![u] = ethPerVe]
      /\ userTimeWeightedEthPerVePaid' = [userTimeWeightedEthPerVePaid EXCEPT ![u] = ethPerVeTimeWeighted]
      /\ userLastRewardTs' = IF UpToDate(u) THEN userLastRewardTs
                             ELSE [userLastRewardTs EXCEPT ![u] = latestRewardTimestamp]
  BY <1>1 DEF Crystallise, Checkpoints, indexVars
<1>3. /\ History' = History
      /\ HistoryInv' /\ History \in Seq(Checkpoint) /\ HistoryInv
  <2>1. History' = History
    BY <1>2, HistoryIs
  <2>2. RingInv' /\ RingInv
    BY <1>2 DEF SourcesInv, HistoryInv, RingInv
  <2> QED
    BY <1>2, <2>1, <2>2, HistoryIsSeq DEF SourcesInv, HistoryInv
<1>4. latestRewardTimestamp \in Nat /\ latestRewardTimestamp <= now
  <2>1. latestRewardTimestamp = At(History, Len(History)).timestamp
    BY <1>3, LatestIs DEF HistoryInv
  <2>2. Len(History) \in 0 .. Len(History)
    BY <1>3, LenProperties
  <2> QED
    BY <1>3, <2>1, <2>2, AtIsCheckpoint DEF HistoryInv, EndsAt, Checkpoint
<1>5. LocksTypeOK'
  BY <1>2 DEF Checkpoints, LockStep, SourcesInv, LocksTypeOK
<1>6. /\ userEthPerVePaid' \in [Users -> Nat] /\ userTimeWeightedEthPerVePaid' \in [Users -> Nat]
      /\ userLastRewardTs' \in [Users -> Nat]
  BY <1>2, <1>4 DEF SourcesInv, HistoryInv
<1>7. ASSUME NEW v \in Users
      PROVE  /\ Paid(History, ethPerVe, ethPerVeTimeWeighted,
                     userEthPerVePaid'[v], userTimeWeightedEthPerVePaid'[v])
             /\ userLastRewardTs'[v] \in Nat /\ userLastRewardTs'[v] <= now
  <2>1. /\ Paid(History, ethPerVe, ethPerVeTimeWeighted, userEthPerVePaid[v], userTimeWeightedEthPerVePaid[v])
        /\ userLastRewardTs[v] \in Nat /\ userLastRewardTs[v] <= now
    BY DEF SourcesInv, PaidOf
  <2>2. Paid(History, ethPerVe, ethPerVeTimeWeighted, ethPerVe, ethPerVeTimeWeighted)
    BY <1>3, PaidUp DEF HistoryInv
  <2>3. CASE v = u
    <3>1. userEthPerVePaid'[v] = ethPerVe /\ userTimeWeightedEthPerVePaid'[v] = ethPerVeTimeWeighted
      BY <1>2, <2>3 DEF SourcesInv
    <3>2. userLastRewardTs'[v] = userLastRewardTs[v] \/ userLastRewardTs'[v] = latestRewardTimestamp
      BY <1>2, <2>3 DEF SourcesInv
    <3> QED
      BY <1>4, <2>1, <2>2, <3>1, <3>2
  <2>4. CASE v # u
    <3>1. /\ userEthPerVePaid'[v] = userEthPerVePaid[v]
          /\ userTimeWeightedEthPerVePaid'[v] = userTimeWeightedEthPerVePaid[v]
          /\ userLastRewardTs'[v] = userLastRewardTs[v]
      BY <1>2, <2>4 DEF SourcesInv
    <3> QED
      BY <2>1, <3>1
  <2> QED
    BY <2>3, <2>4
<1>8. \A v \in Users : PaidOf(History, now, ethPerVe, ethPerVeTimeWeighted, v)'
  BY <1>2, <1>3, <1>7 DEF PaidOf
<1> QED
  BY <1>3, <1>5, <1>6, <1>8 DEF SourcesInv

LEMMA QuietKeepsSources == ASSUME SourcesInv, Quiet PROVE SourcesInv'
<1>1. /\ UNCHANGED <<locks, ethPerVe, ethPerVeTimeWeighted, rewardCheckpoints, overflowCheckpoints,
                     overflowRingHead, userEthPerVePaid, userTimeWeightedEthPerVePaid, userLastRewardTs>>
      /\ now \in Nat /\ now' \in Nat /\ now <= now'
  BY DEF Quiet, indexVars, userVars, SourcesInv, LocksTypeOK
<1>2. History' = History /\ RingInv /\ RingInv' /\ History \in Seq(Checkpoint)
  BY <1>1, HistoryIs, HistoryIsSeq DEF SourcesInv, HistoryInv, RingInv
<1>3. At(History, Len(History)).timestamp \in Nat
  <2>1. Len(History) \in 0 .. Len(History)
    BY <1>2, LenProperties
  <2> QED
    BY <1>2, <2>1, AtIsCheckpoint DEF Checkpoint
<1>4. HistoryInv'
  BY <1>1, <1>2, <1>3 DEF SourcesInv, HistoryInv, EndsAt
<1>5. \A u \in Users : PaidOf(History, now, ethPerVe, ethPerVeTimeWeighted, u)'
  BY <1>1, <1>2 DEF SourcesInv, PaidOf
<1> QED
  BY <1>1, <1>4, <1>5 DEF SourcesInv, LocksTypeOK

(* A user's accrual is the sum over the locks held, up to date or not.     *)
LocksDue(L, S, h, e, paid, twp, last) ==
  Sum([t \in S |-> Credited(L[t], h, e, paid, twp, last)], S)
DueTo(u) ==
  LocksDue(locks, Held(u), History, ethPerVe,
           userEthPerVePaid[u], userTimeWeightedEthPerVePaid[u], userLastRewardTs[u])
AllDue == \A u \in Users : computePendingAccrual(u) = DueTo(u)

LEMMA HeldIsFinite ==
  ASSUME LocksTypeOK, NEW u \in Users
  PROVE  /\ Held(u) \subseteq Tokens /\ IsFiniteSet(Held(u))
         /\ \A t \in Held(u) : locks[t] \in Lock /\ locks[t].owner = u
<1>1. Held(u) \subseteq Tokens
  BY DEF Held
<1>2. IsFiniteSet(Held(u))
  BY <1>1, FS_Subset, VeLocksAssumption
<1> QED
  BY <1>1, <1>2 DEF Held, LocksTypeOK

LEMMA AccrualSums == SourcesInv => AllDue
<1> SUFFICES ASSUME SourcesInv, NEW u \in Users PROVE computePendingAccrual(u) = DueTo(u)
  BY DEF AllDue
<1> DEFINE S == Held(u)
           paid == userEthPerVePaid[u]
           twp == userTimeWeightedEthPerVePaid[u]
           last == userLastRewardTs[u]
           due == [t \in S |-> Credited(locks[t], History, ethPerVe, paid, twp, last)]
<1>1. IsFiniteSet(S) /\ \A t \in S : locks[t] \in Lock
  BY HeldIsFinite DEF SourcesInv
<1>2. /\ HistoryInv /\ History \in Seq(Checkpoint) /\ ethPerVe \in Nat
      /\ paid \in Nat /\ twp \in Nat /\ last \in Nat
  BY HistoryIsSeq DEF SourcesInv, HistoryInv
<1>3. CASE UpToDate(u)
  <2>1. paid = ethPerVe
    BY <1>3 DEF UpToDate
  <2>2. ASSUME NEW t \in S PROVE due[t] = 0
    <3>1. Credited(locks[t], History, ethPerVe, ethPerVe, twp, last) = 0
      <4>1. Ordered(History) /\ EndsAt(History, now, ethPerVe, ethPerVeTimeWeighted)
        BY <1>2 DEF HistoryInv
      <4> QED
        BY <1>1, <1>2, <4>1, NothingDue
    <3> QED
      BY <2>1, <3>1
  <2> HIDE DEF due
  <2>3. Sum(due, S) = 0
    BY <1>1, <2>2, SumOfZeroes
  <2> QED
    BY <1>3, <2>3 DEF computePendingAccrual, DueTo, LocksDue, due
<1>4. CASE ~ UpToDate(u)
  <2> DEFINE acc == [t \in S |-> computeLockAccrual(u, locks[t])]
  <2>1. ASSUME NEW t \in S PROVE acc[t] = due[t]
    <3> DEFINE p == PrefixOf(History, locks[t].lockEnd)
    <3>1. p = getRewardPrefixBefore(locks[t].lockEnd)
      BY PrefixIs
    <3>2. p.ethPerVe \in Nat
      <4>1. locks[t].lockEnd \in Nat
        BY <1>1, ScalesAreNat
      <4>2. PICK k : Reads(History, locks[t].lockEnd, k) /\ p = At(History, k)
        BY <1>2, <4>1, PrefixReads
      <4>3. p \in Checkpoint
        BY <1>2, <4>2, AtIsCheckpoint DEF Reads
      <4> QED
        BY <4>3 DEF Checkpoint
    <3> HIDE DEF p
    <3>3. computeLockAccrual(u, locks[t]) = LockAccrual(locks[t], p, ethPerVe, paid, twp, last)
      BY <1>1, <1>2, <3>1, <3>2, AccrualIs
    <3> QED
      BY <3>3 DEF Credited, p
  <2>2. Sum(acc, S) = Sum(due, S)
    <3> HIDE DEF acc, due
    <3> QED
      BY <1>1, <2>1, SumIsTheSame
  <2>3. computePendingAccrual(u) = Total(acc, S)
    BY <1>4 DEF computePendingAccrual
  <2> HIDE DEF acc, due, S
  <2> QED
    BY <2>2, <2>3, TotalIsSum DEF DueTo, LocksDue, due, S
<1> QED
  BY <1>3, <1>4

LEMMA AccrualWillSum == SourcesInv' => AllDue'
BY AccrualSums, PTL

(* A flush of delta: what the locks of one user are due grows by their      *)
(* weight times delta, or by less where an entry was evicted that one needs. *)
WeightOf(L, S, time) == Sum([t \in S |-> WeightAt(L[t], time)], S)

LEMMA LocksEarn ==
  ASSUME NEW h, NEW g, NEW s, NEW time, NEW e, NEW w, NEW delta, NEW paid, NEW twp, NEW last,
         Flushed(h, g, s, time, e, w, delta, paid, twp, last),
         NEW S, IsFiniteSet(S), NEW L, \A t \in S : L[t] \in Lock
  PROVE  /\ LocksDue(L, S, h, e, paid, twp, last) \in Nat
         /\ LocksDue(L, S, g, e + delta, paid, twp, last) \in Nat
         /\ WeightOf(L, S, time) \in Nat
         /\ LocksDue(L, S, g, e + delta, paid, twp, last)
              <= LocksDue(L, S, h, e, paid, twp, last) + WeightOf(L, S, time) * delta
         /\ (\A t \in S : ~ L[t].autoMax /\ L[t].lockEnd <= time => Lossless(h, g, s, L[t].lockEnd))
              => LocksDue(L, S, g, e + delta, paid, twp, last)
                   = LocksDue(L, S, h, e, paid, twp, last) + WeightOf(L, S, time) * delta
<1> DEFINE b == [t \in S |-> Credited(L[t], h, e, paid, twp, last)]
           a == [t \in S |-> Credited(L[t], g, e + delta, paid, twp, last)]
           x == [t \in S |-> WeightAt(L[t], time)]
           f == [t \in S |-> b[t] + x[t] * delta]
           Lossy(t) == ~ L[t].autoMax /\ L[t].lockEnd <= time /\ ~ Lossless(h, g, s, L[t].lockEnd)
<1>1. delta \in Nat /\ time \in Nat
  BY DEF Flushed, Extends
<1>2. ASSUME NEW t \in S
      PROVE  /\ b[t] \in Nat /\ a[t] \in Nat /\ x[t] \in Nat
             /\ a[t] <= b[t] + x[t] * delta
             /\ ~ Lossy(t) => a[t] = b[t] + x[t] * delta
  <2> DEFINE l == L[t]
             was == Credited(l, h, e, paid, twp, last)
             is  == Credited(l, g, e + delta, paid, twp, last)
             wt  == WeightAt(l, time)
  <2>1. b[t] = was /\ a[t] = is /\ x[t] = wt /\ l \in Lock
    OBVIOUS
  <2>2. /\ was \in Nat /\ wt \in Nat /\ is \in Nat
        /\ is <= was + wt * delta /\ (~ Lossy(t) => is = was + wt * delta)
    <3>1. CASE l.autoMax
      <4>1. was \in Nat /\ wt \in Nat /\ is = was + wt * delta
        BY <3>1, AutoMaxEarns
      <4> HIDE DEF was, wt, is
      <4>2. wt * delta \in Nat
        BY <1>1, <4>1
      <4> QED
        BY <4>1, <4>2
    <3>2. CASE ~ l.autoMax /\ time < l.lockEnd
      <4>1. was \in Nat /\ wt \in Nat /\ is = was + wt * delta
        BY <3>2, LiveLockEarns
      <4> HIDE DEF was, wt, is
      <4>2. wt * delta \in Nat
        BY <1>1, <4>1
      <4> QED
        BY <4>1, <4>2
    <3>3. CASE ~ l.autoMax /\ l.lockEnd <= time
      <4>1. /\ was \in Nat /\ is \in Nat /\ is <= was /\ wt = 0
            /\ Lossless(h, g, s, l.lockEnd) => is = was
        BY <3>3, ExpiredLockEarns
      <4>2. ~ Lossy(t) => is = was
        BY <3>3, <4>1
      <4> HIDE DEF was, wt, is, Lossy
      <4>3. wt * delta = 0
        BY <1>1, <4>1
      <4> QED
        BY <4>1, <4>2, <4>3
    <3>4. l.lockEnd \in Nat /\ (time < l.lockEnd \/ l.lockEnd <= time)
      <4>1. l.lockEnd \in Nat
        BY ScalesAreNat
      <4> QED
        BY <1>1, <4>1
    <3> QED
      BY <3>1, <3>2, <3>3, <3>4
  <2> HIDE DEF was, wt, is, Lossy, b, a, x
  <2> QED
    BY <2>1, <2>2
<1>3. \A t \in S : f[t] = b[t] + x[t] * delta
  OBVIOUS
<1> DEFINE B == Sum(b, S)
           A == Sum(a, S)
           X == Sum(x, S)
           F == Sum(f, S)
<1>4. /\ B = LocksDue(L, S, h, e, paid, twp, last)
      /\ A = LocksDue(L, S, g, e + delta, paid, twp, last)
      /\ X = WeightOf(L, S, time)
  BY DEF LocksDue, WeightOf
<1> HIDE DEF b, a, x, f
<1>5. B \in Nat /\ A \in Nat /\ X \in Nat
  BY <1>2, SumIsNat
<1>6. F = B + X * delta
  <2>1. \A t \in S : b[t] \in Int /\ x[t] \in Int /\ f[t] = b[t] + x[t] * delta
    BY <1>2, <1>3
  <2> QED
    BY <1>1, <2>1, SumIsLinear
<1>7. A <= F
  <2>1. ASSUME NEW t \in S PROVE a[t] \in Int /\ f[t] \in Int /\ a[t] <= f[t]
    <3>1. b[t] \in Nat /\ x[t] \in Nat /\ a[t] \in Nat /\ a[t] <= b[t] + x[t] * delta
      BY <1>2
    <3>2. x[t] * delta \in Nat
      BY <1>1, <3>1
    <3> QED
      BY <1>3, <3>1, <3>2
  <2> QED
    BY <2>1, SumIsAtMost
<1>8. ASSUME \A t \in S : ~ Lossy(t) PROVE A = F
  <2>1. \A t \in S : a[t] = f[t]
    BY <1>2, <1>3, <1>8
  <2> QED
    BY <2>1, SumIsTheSame
<1> HIDE DEF B, A, X, F
<1>9. A <= B + X * delta /\ ((\A t \in S : ~ Lossy(t)) => A = B + X * delta)
  BY <1>6, <1>7, <1>8
<1> QED
  BY <1>4, <1>5, <1>9

(* What a user is due is what the locks earned, less at most what an       *)
(* eviction took from expired ones.                                        *)
AccrualInv ==
  /\ BucketsInv /\ SourcesInv
  /\ earned \in [Users -> Nat]
  /\ AccrualIsExact

(* A flush. *)
LEMMA FlushIsEarned ==
  ASSUME SourcesInv, earned \in [Users -> Nat], NEW delta, NEW weight, NEW s, FlushOf(delta, weight, s),
         NEW u \in Users
  PROVE  /\ DueTo(u) \in Nat /\ UserWeight(u) \in Nat /\ DueTo(u)' \in Nat
         /\ DueTo(u)' <= DueTo(u) + UserWeight(u) * delta
         /\ (\A t \in Held(u) : Reconstructible(t)') =>
              /\ \A t \in Held(u) : Reconstructible(t)
              /\ DueTo(u)' = DueTo(u) + UserWeight(u) * delta
<1> DEFINE S == Held(u)
           h == History
           g == History'
           paid == userEthPerVePaid[u]
           twp == userTimeWeightedEthPerVePaid[u]
           last == userLastRewardTs[u]
<1>1. IsFiniteSet(S) /\ \A t \in S : locks[t] \in Lock
  BY HeldIsFinite DEF SourcesInv
<1>2. /\ UNCHANGED <<now, locks, userEthPerVePaid, userTimeWeightedEthPerVePaid, userLastRewardTs>>
      /\ ethPerVe' = ethPerVe + delta
  BY DEF FlushOf, Unpaid
<1>3. Flushed(h, g, s, now, ethPerVe, ethPerVeTimeWeighted, delta, paid, twp, last)
  BY DEF FlushOf, Stores, Flushed, SourcesInv, PaidOf
<1>4. Held(u)' = S
  BY <1>2 DEF Held
<1>5. /\ DueTo(u) = LocksDue(locks, S, h, ethPerVe, paid, twp, last)
      /\ DueTo(u)' = LocksDue(locks, S, g, ethPerVe + delta, paid, twp, last)
      /\ UserWeight(u) = WeightOf(locks, S, now)
  <2>1. UserWeight(u) = WeightOf(locks, S, now)
    BY TotalIsSum DEF UserWeight, WeightOf
  <2>2. DueTo(u)' = LocksDue(locks', Held(u)', History', ethPerVe', userEthPerVePaid'[u],
                             userTimeWeightedEthPerVePaid'[u], userLastRewardTs'[u])
    BY DEF DueTo
  <2> QED
    BY <1>2, <1>4, <2>1, <2>2, Zenon DEF DueTo
<1>6. ASSUME \A t \in S : Reconstructible(t)'
      PROVE  /\ \A t \in S : Reconstructible(t)
             /\ \A t \in S : ~ locks[t].autoMax /\ locks[t].lockEnd <= now
                               => Lossless(h, g, s, locks[t].lockEnd)
  <2>1. ASSUME NEW t \in S, Expired(t)
        PROVE  Lossless(h, g, s, locks[t].lockEnd) /\ Reaches(locks[t].lockEnd)
    <3>1. locks[t].lockEnd \in Nat /\ locks[t].lockEnd <= now
      BY <1>1, <2>1, ScalesAreNat DEF Expired
    <3>2. Expired(t)'
      BY <1>2, <2>1 DEF Expired, IsDecaying
    <3>3. Reaches(locks[t].lockEnd)'
      BY <1>2, <1>6, <3>2 DEF Reconstructible, Reaches
    <3> QED
      BY <3>1, <3>3 DEF FlushOf, Stores
  <2>2. ASSUME NEW t \in S PROVE Reconstructible(t)
    BY <2>1 DEF Reconstructible, Reaches
  <2>3. ASSUME NEW t \in S, ~ locks[t].autoMax, locks[t].lockEnd <= now PROVE Expired(t)
    BY <1>1, <2>3, VeLocksAssumption DEF Expired, IsDecaying, Held
  <2> QED
    BY <2>1, <2>2, <2>3
<1> DEFINE before == LocksDue(locks, S, h, ethPerVe, paid, twp, last)
           after == LocksDue(locks, S, g, ethPerVe + delta, paid, twp, last)
           wt == WeightOf(locks, S, now)
<1>7. /\ before \in Nat /\ after \in Nat /\ wt \in Nat
      /\ after <= before + wt * delta
      /\ (\A t \in S : ~ locks[t].autoMax /\ locks[t].lockEnd <= now => Lossless(h, g, s, locks[t].lockEnd))
           => after = before + wt * delta
  <2> HIDE DEF S, h, g, paid, twp, last
  <2> QED
    BY <1>1, <1>3, LocksEarn
<1> HIDE DEF before, after, wt
<1> QED
  BY <1>5, <1>6, <1>7 DEF before, after, wt

LEMMA IndexIsExact ==
  ASSUME AccrualInv, NEW pending, NEW drift, Flushes(pending, drift)
  PROVE  AccrualIsExact' /\ earned' \in [Users -> Nat]
<1>1. SourcesInv /\ SourcesInv' /\ earned \in [Users -> Nat] /\ AccrualIsExact
  BY IndexKeepsSources DEF AccrualInv
<1>2. PICK delta, s : FlushOf(delta, LiveWeight + drift, s)
  BY <1>1, FlushIs
<1>3. /\ delta \in Nat /\ earned' = [u \in Users |-> earned[u] + UserWeight(u) * delta]
      /\ UNCHANGED locks
  BY <1>2 DEF FlushOf
<1>4. AllDue /\ AllDue'
  BY <1>1, AccrualSums, AccrualWillSum
<1>5. ASSUME NEW u \in Users
      PROVE  /\ earned'[u] \in Nat
             /\ computePendingAccrual(u)' \in 0 .. earned'[u]
             /\ (\A t \in Held(u)' : Reconstructible(t)') => computePendingAccrual(u)' = earned'[u]
  <2>1. /\ DueTo(u) \in Nat /\ UserWeight(u) \in Nat /\ DueTo(u)' \in Nat
        /\ DueTo(u)' <= DueTo(u) + UserWeight(u) * delta
        /\ (\A t \in Held(u) : Reconstructible(t)') =>
              /\ \A t \in Held(u) : Reconstructible(t)
              /\ DueTo(u)' = DueTo(u) + UserWeight(u) * delta
    BY <1>1, <1>2, FlushIsEarned
  <2>2. computePendingAccrual(u) = DueTo(u) /\ computePendingAccrual(u)' = DueTo(u)'
    BY <1>4 DEF AllDue
  <2>3. /\ computePendingAccrual(u) \in 0 .. earned[u]
        /\ (\A t \in Held(u) : Reconstructible(t)) => computePendingAccrual(u) = earned[u]
    BY <1>1 DEF AccrualIsExact
  <2>4. Held(u)' = Held(u)
    BY <1>3 DEF Held
  <2> DEFINE more == UserWeight(u) * delta
  <2>5. more \in Nat /\ earned'[u] = earned[u] + more /\ earned[u] \in Nat
    BY <1>1, <1>3, <2>1
  <2> HIDE DEF more
  <2>6. /\ DueTo(u)' <= DueTo(u) + more
        /\ (\A t \in Held(u) : Reconstructible(t)') =>
              /\ \A t \in Held(u) : Reconstructible(t)
              /\ DueTo(u)' = DueTo(u) + more
    BY <2>1 DEF more
  <2> QED
    BY <2>1, <2>2, <2>3, <2>4, <2>5, <2>6
<1>6. AccrualIsExact'
  BY <1>5 DEF AccrualIsExact
<1>7. earned' \in [Users -> Nat]
  BY <1>3, <1>5
<1> QED
  BY <1>6, <1>7

(* Whom a step does not checkpoint stays due what it was, and time only     *)
(* makes more locks expired.                                               *)
Untouched(v) ==
  /\ Held(v)' = Held(v) /\ \A t \in Held(v) : locks'[t] = locks[t]
  /\ UNCHANGED <<ethPerVe, rewardCheckpoints, overflowCheckpoints, overflowRingHead>>
  /\ userEthPerVePaid'[v] = userEthPerVePaid[v]
  /\ userTimeWeightedEthPerVePaid'[v] = userTimeWeightedEthPerVePaid[v]
  /\ userLastRewardTs'[v] = userLastRewardTs[v]
  /\ earned'[v] = earned[v]
  /\ now \in Nat /\ now' \in Nat /\ now <= now'

LEMMA UntouchedIsExact ==
  ASSUME AccrualInv, AllDue', NEW v \in Users, Untouched(v)
  PROVE  /\ computePendingAccrual(v)' \in 0 .. earned'[v]
         /\ (\A t \in Held(v)' : Reconstructible(t)') => computePendingAccrual(v)' = earned'[v]
<1> DEFINE S == Held(v)
<1>1. SourcesInv /\ AllDue /\ IsFiniteSet(S) /\ \A t \in S : locks[t] \in Lock
  BY AccrualSums, HeldIsFinite DEF AccrualInv, SourcesInv
<1>2. History' = History /\ RingHistory' = RingHistory
  BY HistoryIs DEF Untouched
<1>3. computePendingAccrual(v)' = computePendingAccrual(v)
  <2>1. computePendingAccrual(v) = DueTo(v) /\ computePendingAccrual(v)' = DueTo(v)'
    BY <1>1 DEF AllDue
  <2>2. DueTo(v)' = LocksDue(locks', Held(v)', History', ethPerVe', userEthPerVePaid'[v],
                             userTimeWeightedEthPerVePaid'[v], userLastRewardTs'[v])
    BY DEF DueTo
  <2>3. DueTo(v)' = LocksDue(locks', S, History, ethPerVe, userEthPerVePaid[v],
                             userTimeWeightedEthPerVePaid[v], userLastRewardTs[v])
    BY <1>2, <2>2 DEF Untouched
  <2>4. DueTo(v)' = DueTo(v)
    <3> DEFINE f == [t \in S |-> Credited(locks'[t], History, ethPerVe, userEthPerVePaid[v],
                                         userTimeWeightedEthPerVePaid[v], userLastRewardTs[v])]
               k == [t \in S |-> Credited(locks[t], History, ethPerVe, userEthPerVePaid[v],
                                         userTimeWeightedEthPerVePaid[v], userLastRewardTs[v])]
    <3>1. ASSUME NEW t \in S PROVE f[t] = k[t]
      <4>1. locks'[t] = locks[t]
        BY DEF Untouched
      <4> QED
        BY <4>1
    <3>2. DueTo(v)' = Sum(f, S) /\ DueTo(v) = Sum(k, S)
      BY <2>3 DEF LocksDue, DueTo
    <3> HIDE DEF f, k, S
    <3>3. Sum(f, S) = Sum(k, S)
      BY <1>1, <3>1, SumIsTheSame
    <3> QED
      BY <3>2, <3>3
  <2> QED
    BY <2>1, <2>4
<1>4. ASSUME NEW t \in S, Reconstructible(t)' PROVE Reconstructible(t)
  <2>1. locks'[t] = locks[t] /\ locks[t].lockEnd \in Nat /\ (RingFull' <=> RingFull)
    BY <1>1, ScalesAreNat DEF Untouched, RingFull
  <2>2. Expired(t) => Expired(t)'
    BY <2>1 DEF Expired, IsDecaying, Untouched
  <2> QED
    BY <1>2, <1>4, <2>1, <2>2 DEF Reconstructible
<1>5. /\ computePendingAccrual(v) \in 0 .. earned[v]
      /\ (\A t \in S : Reconstructible(t)) => computePendingAccrual(v) = earned[v]
  BY DEF AccrualInv, AccrualIsExact
<1>6. Held(v)' = S /\ earned'[v] = earned[v]
  BY DEF Untouched
<1> QED
  BY <1>3, <1>4, <1>5, <1>6

LEMMA CheckpointIsExact ==
  ASSUME AccrualInv, NEW u \in Users, Checkpoints(u)
  PROVE  AccrualIsExact' /\ earned' \in [Users -> Nat]
<1>1. SourcesInv /\ SourcesInv' /\ AllDue'
  BY CheckpointKeepsSources, AccrualWillSum DEF AccrualInv
<1>2. PICK payout : Crystallise(u, payout)
  BY DEF Checkpoints
<1>3. /\ UNCHANGED <<ethPerVe, rewardCheckpoints, overflowCheckpoints, overflowRingHead, now>>
      /\ userEthPerVePaid' = [userEthPerVePaid EXCEPT ![u] = ethPerVe]
      /\ userTimeWeightedEthPerVePaid' = [userTimeWeightedEthPerVePaid EXCEPT ![u] = ethPerVeTimeWeighted]
      /\ userLastRewardTs' = IF UpToDate(u) THEN userLastRewardTs
                             ELSE [userLastRewardTs EXCEPT ![u] = latestRewardTimestamp]
      /\ earned' = [earned EXCEPT ![u] = 0]
      /\ UNCHANGED locks \/ LockStep(u)
  BY <1>2 DEF Crystallise, Checkpoints, indexVars
<1>4. earned' \in [Users -> Nat]
  BY <1>3 DEF AccrualInv
<1>5. /\ computePendingAccrual(u)' \in 0 .. earned'[u] /\ computePendingAccrual(u)' = earned'[u]
  <2>1. UpToDate(u)'
    BY <1>1, <1>3 DEF UpToDate, SourcesInv
  <2>2. computePendingAccrual(u)' = 0 /\ earned'[u] = 0
    BY <1>3, <2>1 DEF computePendingAccrual, AccrualInv
  <2> QED
    BY <2>2
<1>6. ASSUME NEW v \in Users, v # u PROVE Untouched(v)
  <2>1. Held(v)' = Held(v) /\ \A t \in Held(v) : locks'[t] = locks[t]
    <3>1. CASE UNCHANGED locks
      BY <3>1 DEF Held
    <3>2. CASE LockStep(u)
      BY <1>6, <3>2 DEF Held, LockStep
    <3> QED
      BY <1>3, <3>1, <3>2
  <2>2. /\ userEthPerVePaid'[v] = userEthPerVePaid[v]
        /\ userTimeWeightedEthPerVePaid'[v] = userTimeWeightedEthPerVePaid[v]
        /\ userLastRewardTs'[v] = userLastRewardTs[v]
        /\ earned'[v] = earned[v]
    BY <1>1, <1>3, <1>6 DEF SourcesInv, AccrualInv
  <2>3. now \in Nat /\ now' \in Nat /\ now <= now'
    BY <1>1, <1>3 DEF SourcesInv, LocksTypeOK
  <2> QED
    BY <1>3, <2>1, <2>2, <2>3 DEF Untouched
<1>7. ASSUME NEW v \in Users
      PROVE  /\ computePendingAccrual(v)' \in 0 .. earned'[v]
             /\ (\A t \in Held(v)' : Reconstructible(t)') => computePendingAccrual(v)' = earned'[v]
  BY <1>1, <1>5, <1>6, UntouchedIsExact
<1> QED
  BY <1>4, <1>7 DEF AccrualIsExact

LEMMA QuietIsExact ==
  ASSUME AccrualInv, Quiet
  PROVE  AccrualIsExact' /\ earned' \in [Users -> Nat]
<1>1. SourcesInv /\ SourcesInv' /\ AllDue'
  BY QuietKeepsSources, AccrualWillSum DEF AccrualInv
<1>2. /\ UNCHANGED <<locks, ethPerVe, rewardCheckpoints, overflowCheckpoints, overflowRingHead,
                     userEthPerVePaid, userTimeWeightedEthPerVePaid, userLastRewardTs, earned>>
      /\ now \in Nat /\ now' \in Nat /\ now <= now'
  BY <1>1 DEF Quiet, indexVars, userVars, SourcesInv, LocksTypeOK
<1>3. ASSUME NEW v \in Users PROVE Untouched(v)
  <2>1. Held(v)' = Held(v)
    BY <1>2 DEF Held
  <2> QED
    BY <1>2, <2>1 DEF Untouched
<1>4. ASSUME NEW v \in Users
      PROVE  /\ computePendingAccrual(v)' \in 0 .. earned'[v]
             /\ (\A t \in Held(v)' : Reconstructible(t)') => computePendingAccrual(v)' = earned'[v]
  BY <1>1, <1>3, UntouchedIsExact
<1> QED
  BY <1>2, <1>4 DEF AccrualIsExact, AccrualInv

LEMMA AccrualInductive == AccrualInv /\ [Next]_vars => AccrualInv'
<1> SUFFICES ASSUME AccrualInv, [Next]_vars PROVE AccrualInv'
  OBVIOUS
<1>1. BucketsInv' /\ BucketsInv /\ LocksTypeOK /\ SourcesInv
  BY BucketsInductive DEF AccrualInv, SourcesInv
<1>2. CASE \E pending, drift : Flushes(pending, drift)
  BY <1>1, <1>2, IndexKeepsSources, IndexIsExact DEF AccrualInv
<1>3. CASE \E u \in Users : Checkpoints(u)
  BY <1>1, <1>3, CheckpointKeepsSources, CheckpointIsExact DEF AccrualInv
<1>4. CASE Quiet
  BY <1>1, <1>4, QuietKeepsSources, QuietIsExact DEF AccrualInv
<1> QED
  BY <1>1, <1>2, <1>3, <1>4, StepsAre

LEMMA AccrualInitially == Init => AccrualInv
<1> SUFFICES ASSUME Init PROVE AccrualInv
  OBVIOUS
<1>1. BucketsInv
  BY BucketsInitially
<1>2. /\ now = 0 /\ ethPerVe = 0 /\ ethPerVeTimeWeighted = 0 /\ rewardCheckpoints = <<>>
      /\ overflowCheckpoints = <<>> /\ overflowRingHead = 0
      /\ userEthPerVePaid = Zero /\ userTimeWeightedEthPerVePaid = Zero
      /\ userLastRewardTs = Zero /\ earned = Zero
      /\ locks = [t \in Tokens |-> NoLock]
  BY DEF Init
<1>3. Zero \in [Users -> Nat] /\ \A u \in Users : Zero[u] = 0
  BY DEF Zero
<1>4. LocksTypeOK
  BY <1>2 DEF LocksTypeOK
<1>5. RingInv
  BY <1>2, RoyaltiesAssumption DEF RingInv, WellStored
<1>6. Len(History) = 0
  <2>1. Len(InOrder(<<>>, <<>>, 0)) = Len(<<>>) + Len(<<>>)
    BY <1>2, <1>5, HistoryReads DEF RingInv
  <2> QED
    BY <1>2, <2>1, HistoryIs
<1>7. At(History, 0) = Zeroth /\ \A k \in 0 .. Len(History) : k = 0
  BY <1>6 DEF At
<1>8. HistoryInv
  BY <1>2, <1>5, <1>6, <1>7 DEF HistoryInv, Ordered, EndsAt, Zeroth
<1>9. SourcesInv
  <2>1. ASSUME NEW u \in Users PROVE PaidOf(History, now, ethPerVe, ethPerVeTimeWeighted, u)
    BY <1>2, <1>3, <1>6, <1>7 DEF PaidOf, Paid, Zeroth
  <2> QED
    BY <1>2, <1>3, <1>4, <1>8, <2>1 DEF SourcesInv
<1>10. ASSUME NEW u \in Users PROVE computePendingAccrual(u) = 0 /\ earned[u] = 0
  BY <1>2, <1>3 DEF computePendingAccrual, UpToDate
<1>11. AccrualIsExact
  BY <1>10 DEF AccrualIsExact
<1> QED
  BY <1>1, <1>2, <1>3, <1>9, <1>11 DEF AccrualInv

(* The rewards of a user, reconstructed from the two cumulative indices,   *)
(* the history of checkpoints and the locks held when it is checkpointed,  *)
(* are what the user's locks earned flush by flush, to the last 1/ACC wei, *)
(* for any number of users, locks and flushes and any size of the array    *)
(* and the ring: as long as no expired lock's end lies before the oldest   *)
(* entry a full ring still has.  If one does, the accrual is never more    *)
(* than was earned and never negative, so that checkpointUser, and with it *)
(* every lock mutator, does not revert.                                    *)
THEOREM RewardsAreReconstructed == Spec => []AccrualIsExact
<1>1. AccrualInv => AccrualIsExact
  BY DEF AccrualInv
<1> QED
  BY <1>1, AccrualInitially, AccrualInductive, PTL DEF Spec

(* The checkpoint history, the array and the ring however often it wrapped, *)
(* is in the order of time and of a growing index, and ends where the      *)
(* indices stand: what getRewardPrefixBefore's binary search and the       *)
(* "last written" shortcut rely on.                                        *)
THEOREM HistoryStaysInOrder == Spec => []HistoryIsOrdered
<1>1. AccrualInv => HistoryIsOrdered
  <2> SUFFICES ASSUME AccrualInv PROVE HistoryIsOrdered
    OBVIOUS
  <2>1. /\ RingInv /\ Ordered(History) /\ EndsAt(History, now, ethPerVe, ethPerVeTimeWeighted)
        /\ History \in Seq(Checkpoint)
    BY HistoryIsSeq DEF AccrualInv, SourcesInv, HistoryInv
  <2>2. Len(History) \in Nat /\ DOMAIN History = 1 .. Len(History)
    BY <2>1, LenProperties
  <2>3. ASSUME NEW j \in DOMAIN History, NEW k \in DOMAIN History, j < k
        PROVE  /\ History[j].timestamp <= History[k].timestamp
               /\ History[j].ethPerVe < History[k].ethPerVe
    <3>1. /\ j \in 0 .. Len(History) /\ k \in 0 .. Len(History)
          /\ At(History, j) = History[j] /\ At(History, k) = History[k]
      BY <2>2 DEF At
    <3>2. Comes(At(History, j), At(History, k))
      BY <2>1, <2>3, <3>1 DEF Ordered
    <3> QED
      BY <3>1, <3>2 DEF Comes
  <2>4. ASSUME History # <<>>
        PROVE  /\ latestRewardTimestamp = History[Len(History)].timestamp
               /\ ethPerVe = History[Len(History)].ethPerVe
               /\ ethPerVeTimeWeighted = History[Len(History)].timeWeighted
    <3>1. Len(History) # 0
      BY <2>1, <2>4, EmptySeq
    <3>2. At(History, Len(History)) = History[Len(History)]
      BY <3>1 DEF At
    <3> QED
      BY <2>1, <3>2, LatestIs DEF EndsAt
  <2> QED
    BY <2>3, <2>4 DEF HistoryIsOrdered
<1> QED
  BY <1>1, AccrualInitially, AccrualInductive, PTL DEF Spec

-----------------------------------------------------------------------------
(* Part 8: the indexed bucket covers what users are due.                   *)

(* What users earned since their last checkpoints, and the fractions of a  *)
(* wei they carry.                                                         *)
Open == [u \in Users |-> earned[u] + userRewardRemainder[u]]

(* In units of 1/ACC wei, the open rewards and what the clamp took exceed   *)
(* the indexed ETH by less than one wei per flush.                         *)
CoverInv ==
  /\ AccrualInv
  /\ userRewardRemainder \in [Users -> 0 .. SHAREHOLDER_ACC - 1]
  /\ indexedEthOwed \in Nat /\ flushes \in Nat /\ clipped \in Nat
  /\ SHAREHOLDER_ACC * clipped <= flushes * (SHAREHOLDER_ACC - 1)
  /\ Sum(Open, Users) + SHAREHOLDER_ACC * clipped
       <= indexedEthOwed * SHAREHOLDER_ACC + flushes * (SHAREHOLDER_ACC - 1)

LEMMA Division ==
  ASSUME NEW x \in Nat, NEW n \in Nat \ {0}
  PROVE  x \div n \in Nat /\ x % n \in 0 .. n - 1 /\ x = (x \div n) * n + (x % n)
OBVIOUS

LEMMA OpenIsNat ==
  ASSUME CoverInv
  PROVE  /\ IsFiniteSet(Users) /\ Sum(Open, Users) \in Nat
         /\ \A u \in Users : /\ Open[u] = earned[u] + userRewardRemainder[u]
                             /\ earned[u] \in Nat /\ userRewardRemainder[u] \in Nat /\ Open[u] \in Nat
<1>1. IsFiniteSet(Users)
  BY VeLocksAssumption
<1>2. \A u \in Users : /\ Open[u] = earned[u] + userRewardRemainder[u]
                       /\ earned[u] \in Nat /\ userRewardRemainder[u] \in Nat /\ Open[u] \in Nat
  BY DEF Open, CoverInv, AccrualInv
<1>3. Sum(Open, Users) \in Nat
  BY <1>1, <1>2, SumIsNat
<1> QED
  BY <1>1, <1>2, <1>3

(* A flush of delta over weight owes users no more than it sets aside, but *)
(* for the fraction of a wei the quotient drops.                           *)
LEMMA FlushCovers ==
  ASSUME NEW acc \in Nat \ {0}, NEW open \in Nat, NEW clip \in Nat, NEW idx \in Nat, NEW fl \in Nat,
         NEW delta \in Nat, NEW live \in Nat, NEW drift \in Nat,
         open + acc * clip <= idx * acc + fl * (acc - 1)
  PROVE  /\ idx + ((delta * (live + drift)) \div acc) \in Nat
         /\ (open + live * delta) + acc * clip
              <= (idx + ((delta * (live + drift)) \div acc)) * acc + (fl + 1) * (acc - 1)
<1> DEFINE x == delta * (live + drift)
           q == x \div acc
           r == x % acc
<1>1. x \in Nat /\ live * delta <= x /\ live * delta \in Nat
  <2>1. x = live * delta + drift * delta /\ live * delta \in Nat /\ drift * delta \in Nat
    OBVIOUS
  <2> DEFINE y == live * delta
             z == drift * delta
  <2> HIDE DEF x, y, z
  <2>2. x = y + z /\ y \in Nat /\ z \in Nat
    BY <2>1 DEF y, z
  <2>3. x \in Nat /\ y <= x
    BY <2>2
  <2> QED
    BY <2>2, <2>3 DEF y
<1>2. q \in Nat /\ r \in 0 .. acc - 1 /\ x = q * acc + r
  <2> HIDE DEF x
  <2> QED
    BY <1>1, Division
<1> HIDE DEF x, q, r
<1>3. (idx + q) * acc = idx * acc + q * acc /\ idx * acc \in Nat /\ q * acc \in Nat
  BY <1>2
<1>4. (fl + 1) * (acc - 1) = fl * (acc - 1) + (acc - 1) /\ fl * (acc - 1) \in Nat /\ acc * clip \in Nat
  OBVIOUS
<1> DEFINE i == idx * acc
           p == q * acc
           f == fl * (acc - 1)
           c == acc * clip
           y == live * delta
<1>5. /\ i \in Nat /\ p \in Nat /\ f \in Nat /\ c \in Nat /\ y \in Nat
      /\ open + c <= i + f /\ y <= x /\ x = p + r /\ (idx + q) * acc = i + p
      /\ (fl + 1) * (acc - 1) = f + (acc - 1)
  BY <1>1, <1>2, <1>3, <1>4
<1> HIDE DEF i, p, f, c, y
<1>6. (open + y) + c <= (i + p) + (f + (acc - 1))
  BY <1>1, <1>2, <1>5
<1> QED
  BY <1>2, <1>5, <1>6 DEF x, q, y, c

(* A credit of whole wei, clamped or not, leaves the rest covered; where    *)
(* the clamp takes anything, nothing indexed is left, and all that flushes *)
(* dropped bounds it.                                                      *)
LEMMA CreditCovers ==
  ASSUME NEW acc \in Nat \ {0}, NEW open \in Nat, NEW clip \in Nat, NEW idx \in Nat, NEW fl \in Nat,
         NEW due \in Nat, NEW rem \in Nat, NEW accrual \in 0 .. due,
         NEW whole \in Nat, NEW rest \in Nat, rem + accrual = whole * acc + rest,
         NEW after \in Nat, after = (open - (due + rem)) + rest,
         acc * clip <= fl * (acc - 1),
         open + acc * clip <= idx * acc + fl * (acc - 1),
         NEW credit, credit = IF whole > idx THEN idx ELSE whole
  PROVE  /\ idx - credit \in Nat /\ clip + (whole - credit) \in Nat
         /\ acc * (clip + (whole - credit)) <= fl * (acc - 1)
         /\ after + acc * (clip + (whole - credit)) <= (idx - credit) * acc + fl * (acc - 1)
<1> DEFINE W == whole * acc
           C == acc * clip
           I == idx * acc
           F == fl * (acc - 1)
<1>1. W \in Nat /\ C \in Nat /\ I \in Nat /\ F \in Nat
  OBVIOUS
<1>2. after <= open - W
  <2> HIDE DEF W, C, I, F
  <2>1. W \in Nat /\ rem + accrual = W + rest
    BY <1>1 DEF W
  <2> QED
    BY <2>1
<1>3. CASE whole > idx
  <2>1. credit = idx /\ idx - credit = 0 /\ clip + (whole - credit) \in Nat
    BY <1>3
  <2>2. acc * (clip + (whole - credit)) = (C + W) - I
    BY <2>1
  <2>3. (idx - credit) * acc = 0
    BY <2>1
  <2>4. open + C <= I + F
    OBVIOUS
  <2> HIDE DEF W, C, I
  <2>5. after + ((C + W) - I) <= F /\ (C + W) - I <= F
    BY <1>1, <1>2, <2>4
  <2> QED
    BY <1>1, <2>1, <2>2, <2>3, <2>5
<1>4. CASE ~ (whole > idx)
  <2>1. credit = whole /\ idx - credit \in Nat /\ clip + (whole - credit) = clip
    BY <1>4
  <2>2. (idx - credit) * acc = I - W
    BY <2>1
  <2>3. open + C <= I + F /\ C <= F
    OBVIOUS
  <2> DEFINE G == acc * (clip + (whole - credit))
  <2>4. G = C
    BY <2>1
  <2> HIDE DEF W, C, I, F, G
  <2>5. after + G <= (I - W) + F /\ G <= F
    BY <1>1, <1>2, <2>3, <2>4
  <2> QED
    BY <2>1, <2>2, <2>5 DEF F, G
<1> QED
  BY <1>3, <1>4

LEMMA FlushKeepsCover ==
  ASSUME CoverInv, AccrualInv', NEW pending, NEW drift, Flushes(pending, drift)
  PROVE  CoverInv'
<1> DEFINE w == [u \in Users |-> UserWeight(u)]
<1>1. SourcesInv /\ earned \in [Users -> Nat] /\ drift \in Nat
  BY RoyaltiesAssumption DEF CoverInv, AccrualInv, Flushes
<1>2. PICK delta, s : FlushOf(delta, LiveWeight + drift, s)
  BY <1>1, FlushIs
<1>3. /\ delta \in Nat
      /\ earned' = [u \in Users |-> earned[u] + UserWeight(u) * delta]
      /\ indexedEthOwed' = indexedEthOwed + ((delta * (LiveWeight + drift)) \div SHAREHOLDER_ACC)
      /\ flushes' = flushes + 1
      /\ UNCHANGED <<userRewardRemainder, clipped>>
  BY <1>2 DEF FlushOf, Unpaid
<1>4. \A u \in Users : UserWeight(u) \in Nat
  BY <1>1, <1>2, FlushIsEarned
<1>5. LiveWeight = Sum(w, Users) /\ LiveWeight \in Nat
  <2>1. LiveWeight = Sum(w, Users)
    BY TotalIsSum DEF LiveWeight
  <2>2. \A u \in Users : w[u] \in Nat
    BY <1>4
  <2> HIDE DEF w
  <2> QED
    BY <2>1, <2>2, OpenIsNat, SumIsNat
<1>6. Sum(Open', Users) = Sum(Open, Users) + LiveWeight * delta
  <2>1. ASSUME NEW u \in Users
        PROVE  Open[u] \in Int /\ w[u] \in Int /\ Open'[u] = Open[u] + w[u] * delta
    <3>1. Open'[u] = earned'[u] + userRewardRemainder[u]
      BY <1>3 DEF Open
    <3> DEFINE more == UserWeight(u) * delta
    <3>2. earned'[u] = earned[u] + more /\ more \in Nat /\ w[u] = UserWeight(u)
      BY <1>3, <1>4
    <3>3. Open[u] = earned[u] + userRewardRemainder[u] /\ earned[u] \in Nat /\ userRewardRemainder[u] \in Nat
      BY OpenIsNat
    <3> HIDE DEF more, w
    <3>4. Open'[u] = Open[u] + more
      BY <3>1, <3>2, <3>3
    <3> QED
      BY <1>4, <3>2, <3>3, <3>4 DEF more
  <2> HIDE DEF w
  <2> QED
    BY <1>3, <1>5, <2>1, OpenIsNat, SumIsLinear
<1>7. /\ indexedEthOwed' \in Nat
      /\ Sum(Open', Users) + SHAREHOLDER_ACC * clipped
           <= indexedEthOwed' * SHAREHOLDER_ACC + (flushes + 1) * (SHAREHOLDER_ACC - 1)
  <2>1. /\ SHAREHOLDER_ACC \in Nat \ {0} /\ Sum(Open, Users) \in Nat /\ clipped \in Nat
        /\ indexedEthOwed \in Nat /\ flushes \in Nat
        /\ Sum(Open, Users) + SHAREHOLDER_ACC * clipped
             <= indexedEthOwed * SHAREHOLDER_ACC + flushes * (SHAREHOLDER_ACC - 1)
    BY OpenIsNat, RoyaltiesAssumption DEF CoverInv
  <2>2. /\ indexedEthOwed + ((delta * (LiveWeight + drift)) \div SHAREHOLDER_ACC) \in Nat
        /\ (Sum(Open, Users) + LiveWeight * delta) + SHAREHOLDER_ACC * clipped
             <= (indexedEthOwed + ((delta * (LiveWeight + drift)) \div SHAREHOLDER_ACC)) * SHAREHOLDER_ACC
                  + (flushes + 1) * (SHAREHOLDER_ACC - 1)
    BY <1>1, <1>3, <1>5, <2>1, FlushCovers
  <2> QED
    BY <1>3, <1>6, <2>2, Zenon
<1>8. flushes \in Nat /\ clipped \in Nat /\ SHAREHOLDER_ACC * clipped <= (flushes + 1) * (SHAREHOLDER_ACC - 1)
  <2> DEFINE f == flushes * (SHAREHOLDER_ACC - 1)
             c == SHAREHOLDER_ACC * clipped
  <2>1. flushes \in Nat /\ clipped \in Nat /\ SHAREHOLDER_ACC \in Nat \ {0} /\ c <= f
    BY RoyaltiesAssumption DEF CoverInv
  <2>2. (flushes + 1) * (SHAREHOLDER_ACC - 1) = f + (SHAREHOLDER_ACC - 1) /\ f \in Nat /\ c \in Nat
    BY <2>1
  <2> HIDE DEF f, c
  <2>3. c <= f + (SHAREHOLDER_ACC - 1)
    BY <2>1, <2>2
  <2> QED
    BY <2>1, <2>2, <2>3 DEF c
<1>9. userRewardRemainder' \in [Users -> 0 .. SHAREHOLDER_ACC - 1] /\ flushes + 1 \in Nat
  BY <1>3, <1>8 DEF CoverInv
<1> QED
  BY <1>3, <1>7, <1>8, <1>9 DEF CoverInv

LEMMA CheckpointKeepsCover ==
  ASSUME CoverInv, AccrualInv', NEW u \in Users, Checkpoints(u)
  PROVE  CoverInv'
<1> DEFINE acc == SHAREHOLDER_ACC
           accrual == computePendingAccrual(u)
           rem == userRewardRemainder[u]
           due == earned[u]
           whole == WholeAccrued(u)
           rest == (rem + accrual) % acc
           credit == Credit(u)
           open == Sum(Open, Users)
           after == Sum(Open', Users)
<1>1. PICK payout : Crystallise(u, payout)
  BY DEF Checkpoints
<1>2. /\ userRewardRemainder' = [userRewardRemainder EXCEPT ![u] = rest]
      /\ earned' = [earned EXCEPT ![u] = 0]
      /\ clipped' = clipped + (whole - credit)
      /\ indexedEthOwed' = indexedEthOwed - credit
      /\ flushes' = flushes
  BY <1>1 DEF Crystallise, indexVars
<1>3. /\ acc \in Nat \ {0} /\ due \in Nat /\ rem \in Nat /\ accrual \in 0 .. due /\ open \in Nat
      /\ indexedEthOwed \in Nat /\ flushes \in Nat /\ clipped \in Nat
      /\ userRewardRemainder \in [Users -> 0 .. acc - 1] /\ earned \in [Users -> Nat]
      /\ acc * clipped <= flushes * (acc - 1)
      /\ open + acc * clipped <= indexedEthOwed * acc + flushes * (acc - 1)
  BY OpenIsNat, RoyaltiesAssumption DEF CoverInv, AccrualInv, AccrualIsExact
<1>4. /\ whole \in Nat /\ rest \in 0 .. acc - 1 /\ rem + accrual = whole * acc + rest
      /\ credit = IF whole > indexedEthOwed THEN indexedEthOwed ELSE whole
  <2> DEFINE x == rem + accrual
  <2>1. whole = x \div acc /\ rest = x % acc
    BY DEF WholeAccrued
  <2>2. x \in Nat
    BY <1>3
  <2>3. credit = IF whole > indexedEthOwed THEN indexedEthOwed ELSE whole
    BY DEF Credit
  <2> HIDE DEF x, whole, rest, credit
  <2>4. x \div acc \in Nat /\ x % acc \in 0 .. acc - 1 /\ x = (x \div acc) * acc + (x % acc)
    BY <1>3, <2>2, Division
  <2> QED
    BY <2>1, <2>3, <2>4 DEF x
<1> HIDE DEF whole, rest, credit, accrual
<1>5. userRewardRemainder' \in [Users -> 0 .. acc - 1] /\ earned' \in [Users -> Nat]
  BY <1>2, <1>3, <1>4
<1>6. after = (open - (due + rem)) + rest /\ after \in Nat
  <2>1. \A v \in Users : Open'[v] = earned'[v] + userRewardRemainder'[v]
    BY DEF Open
  <2>2. Open[u] = due + rem /\ \A v \in Users : Open[v] \in Nat
    BY OpenIsNat
  <2>3. Open'[u] = rest
    BY <1>2, <1>3, <1>4, <2>1
  <2>4. \A v \in Users \ {u} : Open'[v] = Open[v]
    BY <1>2, <1>3, <2>1, OpenIsNat
  <2>5. after = open - Open[u] + Open'[u]
    BY <1>4, <2>2, <2>3, <2>4, OpenIsNat, SumChanges
  <2>6. after \in Nat
    <3>1. \A v \in Users : Open'[v] \in Nat
      BY <1>5, <2>1
    <3> QED
      BY <3>1, OpenIsNat, SumIsNat
  <2> HIDE DEF after, open, due, rem
  <2> QED
    BY <1>3, <1>4, <2>2, <2>3, <2>5, <2>6
<1>7. /\ indexedEthOwed - credit \in Nat /\ clipped + (whole - credit) \in Nat
      /\ acc * (clipped + (whole - credit)) <= flushes * (acc - 1)
      /\ after + acc * (clipped + (whole - credit)) <= (indexedEthOwed - credit) * acc + flushes * (acc - 1)
  <2> HIDE DEF acc, rem, due, open, after
  <2>1. rest \in Nat
    BY <1>3, <1>4
  <2> QED
    BY <1>3, <1>4, <1>6, <2>1, CreditCovers
<1> QED
  BY <1>2, <1>3, <1>5, <1>7, Zenon DEF CoverInv

LEMMA CoverInductive == CoverInv /\ [Next]_vars => CoverInv'
<1> SUFFICES ASSUME CoverInv, [Next]_vars PROVE CoverInv'
  OBVIOUS
<1>1. AccrualInv' /\ BucketsInv /\ LocksTypeOK
  BY AccrualInductive DEF CoverInv, AccrualInv, SourcesInv
<1>2. CASE \E pending, drift : Flushes(pending, drift)
  BY <1>1, <1>2, FlushKeepsCover
<1>3. CASE \E u \in Users : Checkpoints(u)
  BY <1>1, <1>3, CheckpointKeepsCover
<1>4. CASE Quiet
  <2>1. UNCHANGED <<earned, userRewardRemainder, indexedEthOwed, flushes, clipped>>
    BY <1>4 DEF Quiet, indexVars, userVars
  <2>2. Open' = Open
    BY <2>1 DEF Open
  <2> QED
    BY <1>1, <2>1, <2>2 DEF CoverInv
<1> QED
  BY <1>1, <1>2, <1>3, <1>4, StepsAre

LEMMA CoverInitially == Init => CoverInv
<1> SUFFICES ASSUME Init PROVE CoverInv
  OBVIOUS
<1>1. /\ earned = Zero /\ userRewardRemainder = Zero /\ indexedEthOwed = 0 /\ flushes = 0 /\ clipped = 0
      /\ AccrualInv
  BY AccrualInitially DEF Init
<1>2. Zero \in [Users -> 0 .. SHAREHOLDER_ACC - 1] /\ \A u \in Users : Zero[u] = 0
  BY RoyaltiesAssumption DEF Zero
<1>3. Sum(Open, Users) = 0
  <2>1. \A u \in Users : Open[u] = 0
    BY <1>1, <1>2 DEF Open
  <2> QED
    BY <2>1, SumOfZeroes, VeLocksAssumption
<1>4. SHAREHOLDER_ACC * 0 = 0 /\ 0 * SHAREHOLDER_ACC = 0 /\ 0 * (SHAREHOLDER_ACC - 1) = 0
  BY RoyaltiesAssumption
<1> QED
  BY <1>1, <1>2, <1>3, <1>4 DEF CoverInv

(* Whatever users are due, reconstructed or still to be, is covered by the *)
(* ETH that flushes set aside but for less than one wei per flush, for any *)
(* number of users, locks and flushes; the clamp of checkpointUser takes at *)
(* most N - 1 wei in N flushes from all users together, and never leaves    *)
(* less than nothing indexed.                                              *)
THEOREM RewardsAreCovered == Spec => []IndexedCoversAccrual
<1>1. CoverInv => IndexedCoversAccrual
  <2> SUFFICES ASSUME CoverInv PROVE IndexedCoversAccrual
    OBVIOUS
  <2> DEFINE c == SHAREHOLDER_ACC * clipped
             f == flushes * (SHAREHOLDER_ACC - 1)
             i == indexedEthOwed * SHAREHOLDER_ACC
             open == Sum(Open, Users)
  <2>1. /\ SHAREHOLDER_ACC \in Nat \ {0} /\ clipped \in Nat /\ flushes \in Nat /\ indexedEthOwed \in Nat
        /\ open \in Nat /\ c <= f /\ open + c <= i + f
    BY OpenIsNat, RoyaltiesAssumption DEF CoverInv
  <2>2. c \in Nat /\ f \in Nat /\ i \in Nat
    BY <2>1
  <2>3. Total([u \in Users |-> earned[u] + userRewardRemainder[u]], Users) = open
    BY TotalIsSum DEF Open
  <2>4. clipped <= IF flushes = 0 THEN 0 ELSE flushes - 1
    <3> SUFFICES ASSUME clipped >= flushes, clipped # 0 PROVE FALSE
      BY <2>1
    <3>1. flushes * SHAREHOLDER_ACC <= clipped * SHAREHOLDER_ACC
      BY <2>1, Times
    <3>2. /\ c = clipped * SHAREHOLDER_ACC /\ f = flushes * SHAREHOLDER_ACC - flushes
          /\ flushes * SHAREHOLDER_ACC \in Nat /\ clipped * SHAREHOLDER_ACC \in Nat
      BY <2>1
    <3>3. flushes = 0
      <4> DEFINE a == flushes * SHAREHOLDER_ACC
                 b == clipped * SHAREHOLDER_ACC
      <4> HIDE DEF a, b, c, f
      <4> QED
        BY <2>1, <3>1, <3>2 DEF a, b
    <3>4. flushes * SHAREHOLDER_ACC = 0 /\ clipped * SHAREHOLDER_ACC > 0
      BY <2>1, <3>3
    <3> HIDE DEF c, f
    <3> QED
      BY <2>1, <3>2, <3>3, <3>4
  <2>5. open <= i + f
    <3> HIDE DEF c, f, i, open
    <3> QED
      BY <2>1, <2>2
  <2> QED
    BY <2>1, <2>3, <2>4, <2>5 DEF IndexedCoversAccrual
<1> QED
  BY <1>1, CoverInitially, CoverInductive, PTL DEF Spec
=============================================================================
