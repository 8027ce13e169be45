-------------------------- MODULE LpStakingVault7D --------------------------
(***************************************************************************)
(* LpStakingVault7D: CLAIM shared among the stakers of LP tokens by a      *)
(* cumulative reward per staked token, and LP that leaves only through an  *)
(* unbonding period.                                                       *)
(*                                                                         *)
(* CLAIM reaches the vault as a plain transfer, and the notification that  *)
(* follows is best effort: the Furnace swallows its failure, and inside    *)
(* claimRewardsAndLock and compoundFor, where the Furnace streams to the   *)
(* vault that is calling it, the reentrancy guard always rejects it.  So   *)
(* the vault compares its balance with what it has accounted for, and      *)
(* does so before anything that changes a stake or consumes a reward.      *)
(*                                                                         *)
(* An action is a transaction; one that reverts takes no step.  Amounts of *)
(* LP and of CLAIM are small numbers and ACC is scaled to match.  A batch  *)
(* (compoundForMany) is CompoundFor steps at one time.  Ownership, keeper  *)
(* seats and delegation are left out: who may call is not modelled.        *)
(***************************************************************************)
EXTENDS Integers, FiniteSets, Sequences, FiniteSetsExt

CONSTANTS
  Users,
  ACC,                         \* scale of the reward per token
  INDEX_MAX,                   \* type(uint128).max, beyond which indexing reverts
  MIN_UNBOND_AMOUNT, MAX_UNBONDS_PER_USER, UNBONDING_PERIOD, MIN_COMPOUND_INTERVAL,
  Amounts,                     \* LP amounts a user stakes or unbonds
  Transfers,                   \* CLAIM amounts that arrive
  LP_SUPPLY,                   \* LP tokens there are
  DUE_SCALE,                   \* scale of the history due, to keep its fractions
  ROUNDING,                    \* wei a transaction may round away (RewardsFollowStake)
  MaxTime, MaxTransactions, MaxReceived   \* bounds

ASSUME VaultAssumption ==
  /\ ACC \in Nat \ {0} /\ INDEX_MAX \in Nat /\ DUE_SCALE \in Nat \ {0}
  /\ LP_SUPPLY \in Nat /\ ROUNDING \in Nat
  /\ MIN_UNBOND_AMOUNT \in Nat \ {0} /\ MAX_UNBONDS_PER_USER \in Nat \ {0}
  /\ UNBONDING_PERIOD \in Nat \ {0} /\ MIN_COMPOUND_INTERVAL \in Nat
  /\ Amounts \subseteq Nat \ {0} /\ Transfers \subseteq Nat \ {0}
  /\ MaxTime \in Nat /\ MaxTransactions \in Nat /\ MaxReceived \in Nat
  /\ IsFiniteSet(Users)

VARIABLES
  now,
  totalStaked, stakedBalance,
  \* rewardPerTokenStored, queuedRewards, indexedClaimOwed, accountedRewardBalance
  \* and totalRewardsCredited, which a checkpoint changes together
  books,
  userRewardPerTokenPaid, rewards,
  fundedFromVaultFees,         \* totalClaimRewardsFundedFromVaultFees
  unbonds,                     \* per user: Seq([amount, unlockTime])
  autoCompound,                \* per user: "off", "on" or "paused"
  lastCompoundTs, lastUserLockTs,
  claimBalance, lpBalance,     \* of the vault, at the two tokens
  \* history: what each user took; what each is due by the stakes at the time CLAIM
  \* arrived, and what arrived while nobody staked; the fees harvested; the
  \* unbondings begun, when the user last withdrew and how much LP it got
  taken, due, waiting, feesHarvested, begun, exitedAt, lpTaken,
  transactions                 \* counted for the bound

stakeVars   == <<totalStaked, stakedBalance>>
rewardVars  == <<books, userRewardPerTokenPaid, rewards>>
exitVars    == <<unbonds, begun, exitedAt, lpTaken>>
keeperVars  == <<autoCompound, lastCompoundTs, lastUserLockTs>>
arrivalVars == <<due, waiting, feesHarvested, fundedFromVaultFees>>
vars == <<now, stakeVars, rewardVars, exitVars, keeperVars, arrivalVars,
          claimBalance, lpBalance, taken, transactions>>

Books == [rewardPerToken : Nat, queued : Nat, indexed : Nat, accounted : Nat, credited : Nat]
Unbond == [amount : Nat \ {0}, unlockTime : Nat]
Begun  == [amount : Nat \ {0}, at : Nat]
None == [u \in Users |-> 0]
Total(f, S) == MapThenSumSet(LAMBDA x : f[x], S)

(* No subtraction of the code's unchecked blocks goes below zero, and no   *)
(* user holds more unbondings than the cap.                                *)
VaultTypeOK ==
  /\ now \in Nat /\ transactions \in Nat
  /\ totalStaked \in Nat /\ stakedBalance \in [Users -> Nat]
  /\ books \in Books
  /\ userRewardPerTokenPaid \in [Users -> Nat] /\ rewards \in [Users -> Nat]
  /\ \A u \in Users : unbonds[u] \in Seq(Unbond) /\ Len(unbonds[u]) <= MAX_UNBONDS_PER_USER
  /\ autoCompound \in [Users -> {"off", "on", "paused"}]
  /\ lastCompoundTs \in [Users -> Nat] /\ lastUserLockTs \in [Users -> Nat]
  /\ claimBalance \in Nat /\ lpBalance \in Nat
  /\ fundedFromVaultFees \in Nat /\ feesHarvested \in Nat /\ waiting \in Nat
  /\ taken \in [Users -> Nat] /\ due \in [Users -> Nat]
  /\ \A u \in Users : begun[u] \in Seq(Begun)
  /\ exitedAt \in [Users -> Nat] /\ lpTaken \in [Users -> Nat]

(* No cooldown binds a first call: the clock is ahead of every interval. *)
Init ==
  /\ now = MIN_COMPOUND_INTERVAL /\ transactions = 0
  /\ totalStaked = 0 /\ stakedBalance = None
  /\ books = [rewardPerToken |-> 0, queued |-> 0, indexed |-> 0, accounted |-> 0, credited |-> 0]
  /\ userRewardPerTokenPaid = None /\ rewards = None
  /\ unbonds = [u \in Users |-> <<>>] /\ begun = [u \in Users |-> <<>>]
  /\ autoCompound = [u \in Users |-> "off"]
  /\ lastCompoundTs = None /\ lastUserLockTs = None
  /\ claimBalance = 0 /\ lpBalance = 0
  /\ fundedFromVaultFees = 0 /\ feesHarvested = 0
  /\ taken = None /\ due = None /\ waiting = 0
  /\ exitedAt = None /\ lpTaken = None

-----------------------------------------------------------------------------
(* Indexing.  These are functions of the books b, so that a transaction    *)
(* can apply several in turn.                                              *)

Indexable(amount, staked) == (((amount * ACC) \div staked) * staked) \div ACC

(* Mutant: what the round-down of the index leaves behind is dropped. *)
indexRewardsDroppingRemainder(b, amount, staked) ==
  IF staked = 0 \/ Indexable(amount, staked) = 0
  THEN [b EXCEPT !.queued = @ + amount]
  ELSE [b EXCEPT !.rewardPerToken = @ + (amount * ACC) \div staked,
                 !.indexed = @ + Indexable(amount, staked)]

indexRewardsWithCarry(b, amount, staked) ==
  IF staked = 0 \/ Indexable(amount, staked) = 0
  THEN [b EXCEPT !.queued = @ + amount]
  ELSE [b EXCEPT !.rewardPerToken = @ + (amount * ACC) \div staked,
                 !.indexed = @ + Indexable(amount, staked),
                 !.queued = @ + (amount - Indexable(amount, staked))]

BalanceDelta(b, bal) == IF bal > b.accounted THEN bal - b.accounted ELSE 0

checkpointRewards(b, bal, staked) ==
  LET delta == BalanceDelta(b, bal)
  IN  indexRewardsWithCarry([b EXCEPT !.accounted = @ + delta, !.queued = 0],
                            delta + b.queued, staked)

(* Indexing reverts, and the transaction with it, once the index overflows. *)
IndexFits(b) == b.rewardPerToken <= INDEX_MAX

(* The accrual of a user, clamped to the part of the indexed pool that is  *)
(* not credited to anybody yet.                                            *)

(* Mutant: an accrual the pool cannot cover is credited nevertheless. *)
AccruedUnclamped(b, u) == (stakedBalance[u] * (b.rewardPerToken - userRewardPerTokenPaid[u])) \div ACC

Accrued(b, u) ==
  LET accrued     == (stakedBalance[u] * (b.rewardPerToken - userRewardPerTokenPaid[u])) \div ACC
      unallocated == b.indexed - b.credited
  IN  IF accrued > unallocated THEN unallocated ELSE accrued

CreditTo(b, u) == [b EXCEPT !.credited = @ + Accrued(b, u)]
EarnedAt(b, u) == rewards[u] + Accrued(b, u)

(* The checkpoint every transaction on stakes or rewards begins with. *)
Checkpointed == checkpointRewards(books, claimBalance, totalStaked)

(* decreaseAccountedRewardBalance clamps. *)
PaidOut(b, reward) ==
  [b EXCEPT !.credited = @ - reward, !.indexed = @ - reward,
            !.accounted = IF reward > @ THEN 0 ELSE @ - reward]

(* The view `earned`, with the pending balance delta projected. *)

(* Mutant: a delta is projected without the check that indexing it would move. *)
ProjectedUnchecked(inc, shown) == inc

Projected(inc, shown) == IF shown = 0 THEN 0 ELSE inc

earned(u) ==
  LET pending == BalanceDelta(books, claimBalance) + books.queued
      inc     == IF totalStaked = 0 THEN 0 ELSE (pending * ACC) \div totalStaked
      shown   == (inc * totalStaked) \div ACC
      rpt     == books.rewardPerToken + Projected(inc, shown)
      pool    == books.indexed + shown - books.credited
      accrued == (stakedBalance[u] * (rpt - userRewardPerTokenPaid[u])) \div ACC
  IN  rewards[u] + (IF accrued > pool THEN pool ELSE accrued)

-----------------------------------------------------------------------------
(* History: CLAIM that arrives belongs to those who stake at that moment,  *)
(* and what arrives while nobody does to the next one who stakes.          *)

Received == claimBalance + Total(taken, Users)

Arrives(amount) ==
  /\ Received + amount <= MaxReceived
  /\ IF totalStaked = 0
     THEN waiting' = waiting + amount /\ UNCHANGED due
     ELSE /\ due' = [u \in Users |-> due[u] + (amount * stakedBalance[u] * DUE_SCALE) \div totalStaked]
          /\ UNCHANGED waiting

(* A transaction within the bound. *)
Transact ==
  /\ transactions < MaxTransactions
  /\ transactions' = transactions + 1

Credit(b, u) ==
  /\ books' = CreditTo(b, u)
  /\ rewards' = [rewards EXCEPT ![u] = EarnedAt(b, u)]
  /\ userRewardPerTokenPaid' = [userRewardPerTokenPaid EXCEPT ![u] = b.rewardPerToken]

-----------------------------------------------------------------------------
(* Staking and leaving.                                                    *)

(* Mutant: the stake changes the denominator before pending CLAIM is indexed. *)
StakedBooksLate(u, amount) == CreditTo(checkpointRewards(books, claimBalance, totalStaked + amount), u)

(* The pending delta is indexed over the old total; what could not be      *)
(* indexed, over the new one.                                              *)
StakedBooks(u, amount) ==
  LET b == CreditTo(Checkpointed, u)
  IN  indexRewardsWithCarry([b EXCEPT !.queued = 0], b.queued, totalStaked + amount)

Stake(u, amount) ==
  /\ Transact
  /\ amount >= MIN_UNBOND_AMOUNT
  /\ lpBalance + amount <= LP_SUPPLY
  /\ IndexFits(Checkpointed) /\ IndexFits(StakedBooks(u, amount))
  /\ books' = StakedBooks(u, amount)
  /\ rewards' = [rewards EXCEPT ![u] = EarnedAt(Checkpointed, u)]
  /\ userRewardPerTokenPaid' =
       [userRewardPerTokenPaid EXCEPT ![u] = Checkpointed.rewardPerToken]
  /\ totalStaked' = totalStaked + amount
  /\ stakedBalance' = [stakedBalance EXCEPT ![u] = @ + amount]
  /\ lpBalance' = lpBalance + amount
  /\ IF totalStaked = 0
     THEN /\ due' = [due EXCEPT ![u] = @ + waiting * DUE_SCALE]
          /\ waiting' = 0
     ELSE UNCHANGED <<due, waiting>>
  /\ UNCHANGED <<now, exitVars, keeperVars, feesHarvested, fundedFromVaultFees, claimBalance, taken>>

(* Mutant: a remainder of any size may stay behind. *)
UnbondedWithResidual(u, amount) == amount

(* An unbonding that would leave dust takes it along. *)
Unbonded(u, amount) ==
  IF stakedBalance[u] - amount < MIN_UNBOND_AMOUNT THEN stakedBalance[u] ELSE amount

(* Mutant: one unbonding too many. *)
HasUnbondSlotLate(u) == Len(unbonds[u]) <= MAX_UNBONDS_PER_USER

HasUnbondSlot(u) == Len(unbonds[u]) < MAX_UNBONDS_PER_USER

BeginUnbond(u, amount) ==
  /\ Transact
  /\ amount >= MIN_UNBOND_AMOUNT \/ amount = stakedBalance[u]
  /\ stakedBalance[u] >= amount
  /\ totalStaked >= Unbonded(u, amount)     \* checked arithmetic
  /\ HasUnbondSlot(u)
  /\ IndexFits(Checkpointed)
  /\ Credit(Checkpointed, u)
  /\ LET out == Unbonded(u, amount)
     IN  /\ stakedBalance' = [stakedBalance EXCEPT ![u] = @ - out]
         /\ totalStaked' = totalStaked - out
         /\ unbonds' = [unbonds EXCEPT
              ![u] = Append(@, [amount |-> out, unlockTime |-> now + UNBONDING_PERIOD])]
         /\ begun' = [begun EXCEPT ![u] = Append(@, [amount |-> out, at |-> now])]
  /\ UNCHANGED <<now, keeperVars, arrivalVars, exitedAt, lpTaken, claimBalance, lpBalance, taken>>

(* The loop of withdrawMatured: a matured entry is overwritten by the last *)
(* one and looked at again, any other is passed over.                      *)

(* Mutant: the entry moved into the gap is passed over. *)
VisitSkipping(s) ==
  IF s.i > Len(s.arr) THEN s
  ELSE [i   |-> s.i + 1,
        out |-> IF now >= s.arr[s.i].unlockTime THEN s.out + s.arr[s.i].amount ELSE s.out,
        arr |-> IF now >= s.arr[s.i].unlockTime
                THEN SubSeq([s.arr EXCEPT ![s.i] = s.arr[Len(s.arr)]], 1, Len(s.arr) - 1)
                ELSE s.arr]

Visit(s) ==
  IF now >= s.arr[s.i].unlockTime
  THEN [i   |-> s.i,
        out |-> s.out + s.arr[s.i].amount,
        arr |-> SubSeq([s.arr EXCEPT ![s.i] = s.arr[Len(s.arr)]], 1, Len(s.arr) - 1)]
  ELSE [s EXCEPT !.i = @ + 1]

(* Every visit brings i and the length one closer. *)
Swept(u) ==
  LET after[k \in 0 .. Len(unbonds[u])] ==
        IF k = 0 THEN [i |-> 1, out |-> 0, arr |-> unbonds[u]] ELSE Visit(after[k - 1])
  IN  after[Len(unbonds[u])]

WithdrawMatured(u) ==
  /\ Transact
  /\ Swept(u).out > 0
  /\ unbonds' = [unbonds EXCEPT ![u] = Swept(u).arr]
  /\ lpBalance' = lpBalance - Swept(u).out
  /\ lpTaken' = [lpTaken EXCEPT ![u] = @ + Swept(u).out]
  /\ exitedAt' = [exitedAt EXCEPT ![u] = now]
  /\ UNCHANGED <<now, stakeVars, rewardVars, keeperVars, arrivalVars, begun, claimBalance, taken>>

-----------------------------------------------------------------------------
(* Taking rewards.                                                         *)

(* reward leaves for the user or the Furnace, which may stream nested to   *)
(* the vault in the same transaction: a transfer nobody is told of.        *)
Pays(u, reward, nested) ==
  /\ claimBalance >= reward
  /\ claimBalance' = claimBalance - reward + nested
  /\ rewards' = [rewards EXCEPT ![u] = 0]
  /\ books' = PaidOut(CreditTo(Checkpointed, u), reward)
  /\ userRewardPerTokenPaid' = [userRewardPerTokenPaid EXCEPT ![u] = Checkpointed.rewardPerToken]
  /\ taken' = [taken EXCEPT ![u] = @ + reward]
  /\ Arrives(nested)

(* Mutant: a claim pays what is stored, without bringing it up to date. *)
ClaimableStored(u) == rewards[u]

Claimable(u) == EarnedAt(Checkpointed, u)

ClaimRewards(u) ==
  /\ Transact
  /\ IndexFits(Checkpointed)
  /\ Pays(u, Claimable(u), 0)
  /\ UNCHANGED <<now, stakeVars, exitVars, keeperVars, feesHarvested, fundedFromVaultFees, lpBalance>>

(* With nothing to lock the checkpoint is all that happens.  A quote or an *)
(* entry that fails reverts.                                               *)
ClaimRewardsAndLock(u, nested) ==
  /\ Transact
  /\ IndexFits(Checkpointed)
  /\ \/ /\ Claimable(u) = 0
        /\ Pays(u, 0, 0)
        /\ UNCHANGED lastUserLockTs
     \/ /\ Claimable(u) > 0
        /\ now >= lastUserLockTs[u] + MIN_COMPOUND_INTERVAL
        /\ lastUserLockTs' = [lastUserLockTs EXCEPT ![u] = now]
        /\ Pays(u, Claimable(u), nested)
  /\ UNCHANGED <<now, stakeVars, exitVars, autoCompound, lastCompoundTs, feesHarvested,
                 fundedFromVaultFees, lpBalance>>

(* Any change of the configuration clears a pause. *)
SetAutoCompoundConfig(u, enabled) ==
  /\ autoCompound[u] # (IF enabled THEN "on" ELSE "off")
  /\ autoCompound' = [autoCompound EXCEPT ![u] = IF enabled THEN "on" ELSE "off"]
  /\ UNCHANGED <<now, stakeVars, rewardVars, exitVars, lastCompoundTs, lastUserLockTs, arrivalVars,
                 claimBalance, lpBalance, taken, transactions>>

Pause(u) == autoCompound' = [autoCompound EXCEPT ![u] = "paused"]

(* The destination no longer exists, changed hands, is listed or expired: *)
(* the user's rewards are not looked at.                                   *)
CompoundMisdirected(u) ==
  /\ Pause(u)
  /\ UNCHANGED <<rewardVars, lastCompoundTs, claimBalance, taken, due, waiting>>

(* Below the minimum (of the user or the owner), or without a quote, the   *)
(* user is skipped; a lock too short to extend pauses.                     *)
CompoundSkipped(u) ==
  /\ IndexFits(Checkpointed)
  /\ Credit(Checkpointed, u)
  /\ Pause(u) \/ UNCHANGED autoCompound
  /\ UNCHANGED <<lastCompoundTs, claimBalance, taken, due, waiting>>

CompoundEntered(u, nested) ==
  /\ IndexFits(Checkpointed)
  /\ Claimable(u) > 0
  /\ Pays(u, Claimable(u), nested)
  /\ lastCompoundTs' = [lastCompoundTs EXCEPT ![u] = now]
  /\ UNCHANGED autoCompound

(* Mutant: the user's rewards are zeroed for the call and not restored. *)
CompoundRejectedForfeits(u) ==
  /\ IndexFits(Checkpointed)
  /\ books' = [CreditTo(Checkpointed, u) EXCEPT !.credited = @ - Claimable(u)]
  /\ rewards' = [rewards EXCEPT ![u] = 0]
  /\ userRewardPerTokenPaid' = [userRewardPerTokenPaid EXCEPT ![u] = Checkpointed.rewardPerToken]
  /\ Pause(u)
  /\ UNCHANGED <<lastCompoundTs, claimBalance, taken, due, waiting>>

(* The entry reverts, and what the Furnace streamed with it.  The rewards  *)
(* and the total, debited for the call, are restored to what was credited. *)
CompoundRejected(u) ==
  /\ IndexFits(Checkpointed)
  /\ Credit(Checkpointed, u)
  /\ Pause(u)
  /\ UNCHANGED <<lastCompoundTs, claimBalance, taken, due, waiting>>

CompoundFor(u, nested) ==
  /\ Transact
  /\ autoCompound[u] = "on"
  /\ now >= lastCompoundTs[u] + MIN_COMPOUND_INTERVAL
  /\ \/ CompoundMisdirected(u)
     \/ CompoundSkipped(u)
     \/ CompoundEntered(u, nested)
     \/ CompoundRejected(u)
  /\ UNCHANGED <<now, stakeVars, exitVars, lastUserLockTs, feesHarvested, fundedFromVaultFees, lpBalance>>

-----------------------------------------------------------------------------
(* Funding.                                                                *)

(* A transfer by the Furnace, with a notification that may fail, or by     *)
(* anybody, with none.  The amount notified is not used.                   *)
ClaimArrives(amount, notified) ==
  /\ Transact
  /\ claimBalance' = claimBalance + amount
  /\ Arrives(amount)
  /\ IF notified
     THEN /\ books' = checkpointRewards(books, claimBalance + amount, totalStaked)
          /\ IndexFits(books')
     ELSE UNCHANGED books
  /\ UNCHANGED <<now, stakeVars, userRewardPerTokenPaid, rewards, exitVars, keeperVars,
                 feesHarvested, fundedFromVaultFees, lpBalance, taken>>

(* Mutant: CLAIM that was already waiting is harvested as fees. *)
BooksBeforeHarvestUnsettled == books

BooksBeforeHarvest == Checkpointed

(* harvestFeesToRewards: amount is the CLAIM that the pool's fees bring,   *)
(* directly and by the swap of their WETH.  A harvest of nothing, a late   *)
(* deadline, a failed quote or a breached floor reverts.                   *)
HarvestFeesToRewards(amount) ==
  /\ Transact
  /\ IndexFits(BooksBeforeHarvest)
  /\ claimBalance' = claimBalance + amount
  /\ books' = checkpointRewards(BooksBeforeHarvest, claimBalance', totalStaked)
  /\ IndexFits(books')
  /\ fundedFromVaultFees' = fundedFromVaultFees + BalanceDelta(BooksBeforeHarvest, claimBalance')
  /\ feesHarvested' = feesHarvested + amount
  /\ Arrives(amount)
  /\ UNCHANGED <<now, stakeVars, userRewardPerTokenPaid, rewards, exitVars, keeperVars,
                 lpBalance, taken>>

Tick ==
  /\ now < MaxTime
  /\ now' = now + 1
  /\ UNCHANGED <<stakeVars, rewardVars, exitVars, keeperVars, arrivalVars, claimBalance, lpBalance,
                 taken, transactions>>

Next ==
  \/ Tick
  \/ \E amount \in Transfers :
       HarvestFeesToRewards(amount) \/ \E notified \in BOOLEAN : ClaimArrives(amount, notified)
  \/ \E u \in Users :
       \/ \E amount \in Amounts : Stake(u, amount) \/ BeginUnbond(u, amount)
       \/ WithdrawMatured(u) \/ ClaimRewards(u)
       \/ \E nested \in Transfers \cup {0} : ClaimRewardsAndLock(u, nested) \/ CompoundFor(u, nested)
       \/ \E enabled \in BOOLEAN : SetAutoCompoundConfig(u, enabled)

Spec == Init /\ [][Next]_vars

-----------------------------------------------------------------------------
(* Properties.                                                             *)

(* What is credited to users is covered by what is indexed, that with the  *)
(* queue is what is accounted for, and that is covered by the CLAIM in the *)
(* vault: no rounding, clamp, failed entry or silent transfer pays one     *)
(* user out of another's rewards (the disjoint-debt invariant of           *)
(* LpStakingVault7D).  totalRewardsCredited is the sum of the users'       *)
(* stored rewards, which the code keeps in step by hand, through the       *)
(* provisional debit and restore of compoundFor too.                       *)
ClaimCovered ==
  /\ books.credited = Total(rewards, Users)
  /\ books.credited <= books.indexed
  /\ books.indexed + books.queued = books.accounted
  /\ books.accounted <= claimBalance

Distance(a, b) == IF a > b THEN a - b ELSE b - a

(* CLAIM goes to those who staked when it arrived, in proportion to their  *)
(* stakes, whenever it was noticed: what a user took and is shown as       *)
(* earned is its due, give or take the rounding of ROUNDING wei a          *)
(* transaction.  Neither joining after a transfer nor leaving before its   *)
(* notification moves rewards, and a failed compounding forfeits none.     *)
RewardsFollowStake ==
  \A u \in Users : Distance((taken[u] + earned(u)) * DUE_SCALE, due[u])
                     <= transactions * ROUNDING * DUE_SCALE

InExit(u) == Total([k \in DOMAIN unbonds[u] |-> unbonds[u][k].amount], DOMAIN unbonds[u])
MaturedBy(u, time) ==
  Total([k \in DOMAIN begun[u] |->
           IF begun[u][k].at + UNBONDING_PERIOD <= time THEN begun[u][k].amount ELSE 0],
        DOMAIN begun[u])

(* Withdrawing pays every unbonding that has run its period, in full and   *)
(* once, and no other, in whatever order the swap-and-pop left them; and   *)
(* the LP of all stakes and unbondings is in the vault.                    *)
ExitsPaidOnTime ==
  /\ \A u \in Users : lpTaken[u] = MaturedBy(u, exitedAt[u])
  /\ totalStaked = Total(stakedBalance, Users)
  /\ lpBalance = totalStaked + Total([u \in Users |-> InExit(u)], Users)

(* Only what a harvest brought in counts as vault fees: a transfer whose   *)
(* notification failed, still unaccounted for when the harvest starts, is  *)
(* not taken for fees.                                                     *)
OnlyFeesCountAsFees == fundedFromVaultFees = feesHarvested

(* A claim pays exactly what the view `earned` showed before it, with      *)
(* whatever pending delta, queue and clamp: the view repeats the           *)
(* arithmetic of checkpoint and credit in code of its own.                 *)
ClaimPaysWhatIsShown ==
  [][\A u \in Users : ClaimRewards(u) => taken'[u] - taken[u] = earned(u)]_vars
=============================================================================
