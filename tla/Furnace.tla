------------------------------- MODULE Furnace -------------------------------
(***************************************************************************)
(* The Furnace's own money: the reserve bonuses are paid from, the stream  *)
(* that smooths the LP vault's share over a window, the drip of what the   *)
(* reserve holds above its target, and the owner's ways to replace the     *)
(* vault.  A transaction reads the whole contract and writes it back, so   *)
(* the contract is one record and its internal functions are operators on  *)
(* it.  What the quoter answers is one of a few splits; locks, swaps and   *)
(* virtual depth are left out, and so is the ramp of the drip.             *)
(***************************************************************************)
EXTENDS Integers, Sequences, SequencesExt

CONSTANTS
  Holders,            \* users who are paid bonuses
  Vaults, NoVault,    \* LP vaults, and the zero address
  STREAMWINDOW,       \* LP_STREAM_WINDOW
  TARGET,             \* RESERVE_TARGET_FINAL
  DRIP,               \* what the drip pays in one unit of time
  MINTOPUP,           \* MIN_TOPUP_AMOUNT
  DAY,                \* one day, for the cap on what sales give the LPs
  SALECAP,            \* that cap
  REWIREDELAY,        \* _EMERGENCY_VAULT_REWIRE_DELAY
  Credits,            \* amounts MineCore mints to the Furnace
  Bonuses,            \* splits of a bonus: [user, lp]
  Sales,              \* quotes of a sale: [amount, out, lp]
  Gaps,               \* time from a block to the next
  Horizon, MaxTouches, MaxReserve, MaxGifts   \* bounds: time, transactions, CLAIM, donations

ASSUME FurnaceAssumption ==
  /\ NoVault \notin Vaults
  /\ STREAMWINDOW \in Nat \ {0} /\ DAY \in Nat \ {0} /\ Gaps \subseteq Nat \ {0}
  /\ TARGET \in Nat /\ DRIP \in Nat /\ MINTOPUP \in Nat /\ SALECAP \in Nat /\ REWIREDELAY \in Nat \ {0}
  /\ Credits \subseteq Nat
  /\ Bonuses \subseteq [user : Nat, lp : Nat]
  /\ Sales \subseteq [amount : Nat, out : Nat, lp : Nat]
  /\ \A q \in Sales : q.out + q.lp <= q.amount
  /\ {Horizon, MaxTouches, MaxReserve, MaxGifts} \subseteq Nat

VARIABLES
  clock,      \* block.timestamp
  touches,    \* how many transactions there have been
  furnace     \* the contract; its ghost fields are funded, stranded, delivered and surplus

furnaceVars == <<clock, touches, furnace>>

EmptyFurnace ==
  [reserve |-> 0, balance |-> 0,                                  \* furnaceReserve, CLAIM held
   vault |-> NoVault, rate |-> 0, finish |-> 0, carry |-> 0, last |-> clock,   \* the LP stream
   dripAt |-> clock, soldDay |-> clock \div DAY, sold |-> 0,
   rewireAt |-> 0, rewireTo |-> NoVault,
   sent |-> [v \in Vaults |-> 0],      \* CLAIM each vault received
   funded |-> [v \in Vaults |-> 0],    \* what was promised to each vault
   stranded |-> [v \in Vaults |-> 0],  \* what an emergency rewire took back
   delivered |-> 0,                    \* bonus that reached a user's lock
   surplus |-> 0,                      \* CLAIM nobody accounts for
   log |-> <<>>]                       \* events of the block

FurnaceInit == clock = DAY /\ touches = 0 /\ furnace = EmptyFurnace

Smaller(a, b) == IF a <= b THEN a ELSE b
Over(a, b) == IF a > b THEN a - b ELSE 0
Logged(x, e) == [x EXCEPT !.log = Append(@, e)]
Today == clock \div DAY

-----------------------------------------------------------------------------
(* The LP stream.                                                          *)
lpStreamLiability(x) ==
  x.carry + (IF x.rate # 0 /\ x.finish # 0 /\ x.finish > x.last
             THEN (x.finish - x.last) * x.rate ELSE 0)

_accrueLpStream(x) ==
  LET t == Smaller(clock, x.finish)
      streamed == (t - x.last) * x.rate
  IN IF x.vault = NoVault THEN x
     ELSE IF x.rate = 0 \/ x.finish = 0 THEN [x EXCEPT !.last = clock]
     ELSE IF clock <= x.last \/ t <= x.last THEN x
     ELSE [x EXCEPT !.last = t, !.balance = @ - streamed, !.sent[x.vault] = @ + streamed,
                    !.rate   = IF t >= x.finish THEN 0 ELSE @,
                    !.finish = IF t >= x.finish THEN 0 ELSE @]

(* computeStreamSchedule: what is left, the new amount and the carry, over *)
(* a fresh window.                                                         *)
Remaining(x) == IF x.finish > clock /\ x.rate # 0 THEN (x.finish - clock) * x.rate ELSE 0
FundDropsCarryMutant(x, a) ==
  IF (a = 0 /\ x.carry = 0) \/ x.vault = NoVault THEN x
  ELSE LET total == Remaining(x) + a IN
       Logged([x EXCEPT !.rate = total \div STREAMWINDOW, !.carry = total % STREAMWINDOW,
                        !.finish = clock + STREAMWINDOW, !.last = clock,
                        !.funded[x.vault] = @ + a],
              [k |-> "LpStreamFunded", rate |-> total \div STREAMWINDOW,
               finish |-> clock + STREAMWINDOW])
_fundLpStreamInternal(x, a) ==
  IF (a = 0 /\ x.carry = 0) \/ x.vault = NoVault THEN x
  ELSE LET total == Remaining(x) + a + x.carry IN
       Logged([x EXCEPT !.rate = total \div STREAMWINDOW, !.carry = total % STREAMWINDOW,
                        !.finish = clock + STREAMWINDOW, !.last = clock,
                        !.funded[x.vault] = @ + a],
              [k |-> "LpStreamFunded", rate |-> total \div STREAMWINDOW,
               finish |-> clock + STREAMWINDOW])

_settleMaturedLpCarry(x) ==
  IF x.vault = NoVault \/ x.rate # 0 \/ x.finish # 0 THEN x
  ELSE IF x.balance < x.carry THEN x      \* the transfer fails: CarrySettlementFailed
  ELSE [x EXCEPT !.carry = 0, !.balance = @ - x.carry, !.sent[x.vault] = @ + x.carry]

(* The drip: what time has earned the vault, above the target.             *)
PendingDrip(x) ==
  IF x.vault = NoVault \/ clock <= x.dripAt THEN 0
  ELSE Smaller(DRIP * (clock - x.dripAt), Over(x.reserve, TARGET))
_accrueLpOverflowDrip(x) ==
  LET y == _accrueLpStream(x)
      dripped == PendingDrip(y)
      z == IF clock > y.dripAt THEN [y EXCEPT !.dripAt = clock] ELSE y
  IN IF dripped = 0 THEN z
     ELSE Logged(_fundLpStreamInternal([z EXCEPT !.reserve = @ - dripped], dripped),
                 [k |-> "LpOverflowDripPaid", a |-> dripped, after |-> z.reserve - dripped])

_lpRewardsVaultLiability(x) ==
  IF x.vault = NoVault THEN 0 ELSE lpStreamLiability(x) + PendingDrip(x)

_syncFurnaceReserve(x) ==
  LET cap == Over(x.balance, lpStreamLiability(x)) IN
  IF x.reserve <= cap THEN x
  ELSE Logged([x EXCEPT !.reserve = cap], [k |-> "ReserveClamped", after |-> cap])

-----------------------------------------------------------------------------
(* The bonus: reserve to user and stream; the event carries the reserve.   *)
Paid(x, b) ==         \* the quoter never answers more than the reserve
  LET user == Smaller(b.user, x.reserve) IN
  [user |-> user, lp |-> IF x.vault = NoVault THEN 0 ELSE Smaller(b.lp, x.reserve - user)]
_applyBonusAmm(x, u, b) ==
  LET y == _accrueLpOverflowDrip(x)
      p == Paid(y, b)
      z == [y EXCEPT !.reserve = @ - (p.user + p.lp)]
      w == IF p.lp = 0 THEN z ELSE _fundLpStreamInternal(z, p.lp)
  IN IF p.user + p.lp = 0 THEN w
     ELSE Logged(w, [k |-> "BonusPaid", tx |-> touches, u |-> u, user |-> p.user, lp |-> p.lp,
                     after |-> w.reserve, quote |-> y.reserve])
BonusOf(x, b) == Paid(_accrueLpOverflowDrip(x), b).user

(* The user's part goes into a lock; dust below the least top-up goes back.*)
Deliver(x, a) == [x EXCEPT !.balance = @ - a, !.delivered = @ + a]
DustIsKeptMutant(x, a) == IF a >= MINTOPUP THEN Deliver(x, a) ELSE x
DeliverOrRefund(x, a) == IF a >= MINTOPUP THEN Deliver(x, a) ELSE [x EXCEPT !.reserve = @ + a]
Delivered(a) == IF a >= MINTOPUP THEN a ELSE 0

Call(x) ==
  /\ touches < MaxTouches /\ touches' = touches + 1
  /\ furnace' = x /\ UNCHANGED clock

(* MineCore mints to the Furnace and tells it so.                          *)
creditReserve(a) ==
  LET x == _accrueLpOverflowDrip([furnace EXCEPT !.balance = @ + a])
      y == _syncFurnaceReserve([x EXCEPT !.reserve = @ + a])
  IN /\ furnace.balance + a <= MaxReserve
     /\ Call(IF a = 0 THEN x ELSE Logged(y, [k |-> "ReserveCredited", after |-> y.reserve]))

(* An entry: the principal passes through, the bonus joins it in the lock. *)
Enter(u, b) ==
  LET x == _syncFurnaceReserve(Deliver(_applyBonusAmm(furnace, u, b), BonusOf(furnace, b))) IN
  Call(Logged(x, [k |-> "FurnaceEnter", tx |-> touches, u |-> u, user |-> BonusOf(furnace, b)]))

(* An extension or a merge that lengthens nothing does not ask the AMM.    *)
ExtendOrMerge(kind, u, b, lengthens) ==
  LET x == IF lengthens THEN _applyBonusAmm(furnace, u, b) ELSE furnace
      a == IF lengthens THEN BonusOf(furnace, b) ELSE 0
      y == _syncFurnaceReserve(DeliverOrRefund(x, a))
  IN Call(Logged(y, [k |-> kind, tx |-> touches, u |-> u, user |-> Delivered(a)]))
ExtendWithBonus(u, b, lengthens)     == ExtendOrMerge("FurnaceEnter", u, b, lengthens)
MergeLocksWithBonus(u, b, lengthens) == ExtendOrMerge("FurnaceMergeWithBonus", u, b, lengthens)

(* claimAutoMaxBonusBatch: several locks, one sync at the end.             *)
_claimAutoMaxBonusCore(x, c) ==
  LET a == BonusOf(x, c.b) IN
  IF a = 0 THEN x                                 \* the quoter is asked first
  ELSE Logged(DeliverOrRefund(_applyBonusAmm(x, c.u, c.b), a),
              [k |-> "AutoMaxBonusClaimed", tx |-> touches, u |-> c.u, user |-> Delivered(a)])
ClaimedInTurn(x, cs) ==
  LET after[k \in 0..Len(cs)] == IF k = 0 THEN x ELSE _claimAutoMaxBonusCore(after[k - 1], cs[k])
  IN after[Len(cs)]
ClaimAutoMaxBonusBatch(cs) == Call(_syncFurnaceReserve(ClaimedInTurn(furnace, cs)))

(* A lock is sold: its principal comes back, a part of it to the seller, a *)
(* capped part to the LPs, the rest to the reserve.                        *)
SaleReward(x, q) ==
  LET used == IF x.soldDay = Today THEN x.sold ELSE 0 IN
  IF x.vault = NoVault THEN 0 ELSE Smaller(q.lp, Over(SALECAP, used))
_trackLpSaleRewardFunding(x, a) ==
  IF a = 0 THEN x
  ELSE [x EXCEPT !.soldDay = Today, !.sold = (IF x.soldDay = Today THEN @ ELSE 0) + a]
SaleMoney(x, q, lp) ==
  LET add == q.amount - q.out - lp
      y == [x EXCEPT !.balance = @ + q.amount, !.reserve = @ + add]
      z == IF lp = 0 THEN y ELSE _fundLpStreamInternal(y, lp)
  IN [z EXCEPT !.balance = @ - q.out]
sellLockToFurnaceFromMarket(q) ==
  LET x  == _accrueLpOverflowDrip(furnace)
      lp == SaleReward(x, q)
      e  == [k |-> "LockSoldToFurnace", lp |-> lp, add |-> q.amount - q.out - lp]
  IN /\ furnace.balance + q.amount <= MaxReserve
     /\ Call(_syncFurnaceReserve(SaleMoney(Logged(_trackLpSaleRewardFunding(x, lp), e), q, lp)))

tick ==
  LET x == _accrueLpOverflowDrip(furnace)
      y == IF x.carry > 0 /\ x.rate = 0 /\ x.vault # NoVault THEN _fundLpStreamInternal(x, 0) ELSE x
  IN Call(_syncFurnaceReserve(y))

(* CLAIM sent to the Furnace by anyone never becomes reserve.              *)
Donate ==
  /\ furnace.surplus < MaxGifts /\ furnace.balance < MaxReserve
  /\ Call([furnace EXCEPT !.balance = @ + 1, !.surplus = @ + 1])

-----------------------------------------------------------------------------
(* The owner replaces the vault once it is owed nothing, or in an          *)
(* emergency after a delay, which takes the stream back.                   *)
ReplaceableMutant(x) == x.rate = 0
Replaceable(x) == _lpRewardsVaultLiability(x) = 0
setLpRewardsVault(v) ==
  LET x == _settleMaturedLpCarry(_accrueLpOverflowDrip(furnace)) IN
  /\ v # furnace.vault
  /\ Replaceable(x)
  /\ Call(Logged([x EXCEPT !.vault = v, !.dripAt = clock], [k |-> "LpRewardsVaultSet", v |-> v]))

requestEmergencyVaultRewire(v) ==
  /\ furnace.rewireAt = 0 /\ v # NoVault /\ v # furnace.vault
  /\ _lpRewardsVaultLiability(furnace) # 0
  /\ Call([furnace EXCEPT !.rewireAt = clock + REWIREDELAY, !.rewireTo = v])

cancelEmergencyVaultRewire ==
  /\ furnace.rewireAt # 0
  /\ Call([furnace EXCEPT !.rewireAt = 0, !.rewireTo = NoVault])

executeEmergencyVaultRewire ==
  LET x == furnace
      left == lpStreamLiability(x)
      y == IF x.vault = NoVault THEN x
           ELSE [x EXCEPT !.stranded[x.vault] = @ + left, !.surplus = @ + left]
  IN /\ x.rewireAt # 0 /\ clock >= x.rewireAt /\ x.rewireTo # x.vault
     /\ Call(Logged([y EXCEPT !.rate = 0, !.finish = 0, !.carry = 0, !.last = clock,
                              !.dripAt = clock, !.rewireAt = 0, !.rewireTo = NoVault,
                              !.vault = x.rewireTo],
                    [k |-> "LpRewardsVaultSet", v |-> x.rewireTo]))

NextBlock ==
  /\ \E d \in Gaps : clock + d <= Horizon /\ clock' = clock + d
  /\ UNCHANGED touches /\ furnace' = [furnace EXCEPT !.log = <<>>]

Claims == [u : Holders, b : Bonuses]
Batches == {<<c>> : c \in Claims} \cup {<<c, d>> : c, d \in Claims}

FurnaceCall ==
  \/ \E a \in Credits : creditReserve(a)
  \/ \E u \in Holders, b \in Bonuses :
       \/ Enter(u, b)
       \/ \E lengthens \in BOOLEAN : ExtendWithBonus(u, b, lengthens) \/ MergeLocksWithBonus(u, b, lengthens)
  \/ \E cs \in Batches : ClaimAutoMaxBonusBatch(cs)
  \/ \E q \in Sales : sellLockToFurnaceFromMarket(q)
  \/ tick \/ Donate
  \/ \E v \in Vaults \cup {NoVault} : setLpRewardsVault(v)
  \/ \E v \in Vaults : requestEmergencyVaultRewire(v)
  \/ cancelEmergencyVaultRewire \/ executeEmergencyVaultRewire

FurnaceNext == FurnaceCall \/ NextBlock
FurnaceSpec == FurnaceInit /\ [][FurnaceNext]_furnaceVars

-----------------------------------------------------------------------------
(* type invariant *)
FurnaceTypeOK ==
  /\ clock \in Nat /\ touches \in Nat
  /\ \A n \in {"reserve", "balance", "rate", "finish", "carry", "last", "dripAt", "surplus"} :
       furnace[n] \in Nat
  /\ furnace.vault \in Vaults \cup {NoVault}

(* The Furnace holds what it says it holds: the reserve, all that is owed  *)
(* to the LP vault and the CLAIM nobody accounts for make up its balance,  *)
(* so that no sync ever has to clamp the reserve (Furnace.sol:604-627).    *)
BalanceIsExact ==
  furnace.balance = furnace.reserve + lpStreamLiability(furnace) + furnace.surplus
NothingIsClamped == _syncFurnaceReserve(furnace) = furnace

(* Each vault gets, is owed or lost in an emergency exactly what was       *)
(* promised to it: rounding, the carry, refunding and a change of the      *)
(* vault lose nothing and give no vault what another earned.               *)
VaultsGetTheirs ==
  \A v \in Vaults :
    furnace.funded[v] = furnace.sent[v] + furnace.stranded[v]
                        + (IF furnace.vault = v THEN lpStreamLiability(furnace) ELSE 0)

(* The sales of one day give the LPs no more than the cap.                 *)
SalesStayUnderTheCap == furnace.soldDay = Today => furnace.sold <= SALECAP

FurnaceIsBacked == BalanceIsExact /\ NothingIsClamped /\ VaultsGetTheirs /\ SalesStayUnderTheCap

(* A vault whose stream has paid all it schedules can be replaced: the     *)
(* carry is settled to it first (Furnace.t.sol:361-365, errors.md:104).    *)
Matured(x) == x.rate = 0 /\ Over(x.reserve, TARGET) = 0
VaultCanBeReplaced ==
  Matured(furnace) => Replaceable(_settleMaturedLpCarry(_accrueLpOverflowDrip(furnace)))
=============================================================================
