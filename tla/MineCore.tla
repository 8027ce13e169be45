------------------------------ MODULE MineCore ------------------------------
(***************************************************************************)
(* MineCore: the throne.  Anyone may take it over at the Dutch-auction     *)
(* price; the takeover dethrones the King, splits the price between the    *)
(* King's ETH recipient and the shareholders, mints the CLAIM the reign    *)
(* earned and starts the next reign.  Every transfer a takeover makes is   *)
(* best effort: what cannot be delivered is parked in a bucket and         *)
(* withdrawn or retried later, so that no recipient can block the throne.  *)
(*                                                                         *)
(* One action per external entry point; a transaction that reverts takes   *)
(* no step.  What other contracts answer is a choice of the environment:   *)
(* Unreliable names the calls that may fail in an instance.  Wiring, ve    *)
(* checkpoint freshness and the reserve credit only ever make a takeover   *)
(* revert; a step is one in which they are in order.                       *)
(***************************************************************************)
EXTENDS KingAutoLock, Sequences, FiniteSets, Functions

CONSTANTS
  KING_ETH_SHARE_PCT, KING_ETH_SHARE_DENOM,
  TAKEOVER_WINDOW_LEN, KING_LIQUID_SHARE_MAX_BPS,
  GENESIS_ACCRUAL_DURATION,
  RETRY_CADENCE,       \* the 300 seconds between two shareholder retries
  Unreliable,          \* external calls that may fail
  Overpayments,        \* ETH above the price that a caller may send
  Guardians,           \* who may hold the guardian role
  Recipients,          \* to whom a reign in progress may be rerouted
  ForcedEth, DonatedClaim,   \* untracked amounts that may be forced upon the contract
  MaxTime, MaxReigns,  \* bounds
  Amounts              \* amounts quantified over in the abstract ledger

ExternalCalls == {"kingPush", "royalties", "refund", "lock"}

ASSUME CoreAssumption ==
  /\ NoOne \notin Accounts
  /\ KING_ETH_SHARE_PCT \in Nat
  /\ KING_ETH_SHARE_DENOM \in Nat \ {0}
  /\ KING_ETH_SHARE_PCT <= KING_ETH_SHARE_DENOM
  /\ TAKEOVER_WINDOW_LEN \in Nat \ {0}
  /\ KING_LIQUID_SHARE_MAX_BPS \in 0 .. 10000
  /\ GENESIS_ACCRUAL_DURATION \in Nat
  /\ RETRY_CADENCE \in Nat
  /\ Unreliable \subseteq ExternalCalls
  /\ {"owner", "launchController"} \subseteq Guardians
  /\ Recipients \subseteq Accounts
  /\ Overpayments \subseteq Nat
  /\ ForcedEth \subseteq Nat /\ DonatedClaim \subseteq Nat
  /\ MaxTime \in Nat /\ MaxReigns \in Nat
  /\ Amounts \subseteq Nat

Slots == 0 .. TAKEOVER_WINDOW_LEN - 1
Answers(call) == IF call \in Unreliable THEN BOOLEAN ELSE {TRUE}

VARIABLES
  now,                          \* block.timestamp
  \* roles and pauses
  guardian, takeoversPaused, pausedSince, genesisKingClaimCollected,
  \* the current reign
  currentKing, currentReignStartTime, currentReignLastAccrualTime, referencePrice,
  reignEthRecipient, reignClaimRecipient,
  reignKings,                   \* reignInfo[i].king, for i = 1 .. currentReignId
  \* the rolling window of the last takeovers
  takeoverWindow, takeoverWindowCursor, takeoverWindowTakeovers,
  \* ETH
  kingEthBalance, totalKingEthOwed, refundEthBalance, totalRefundEthOwed,
  shareholderEthPending, lastShareholderRetryTs,
  ethBalance,                   \* address(this).balance
  \* CLAIM
  pendingKingClaim, totalPendingKingClaim,
  claimBalance,                 \* claim.balanceOf(address(this))
  \* history: what came in, was delivered on whose behalf, and was forced upon us
  ethReceived, ethPaid, royaltiesEth, ethSurplus, claimPaid, claimSurplus,
  openTime                      \* history: unpaused seconds of the current reign

pauseVars  == <<guardian, takeoversPaused, pausedSince, genesisKingClaimCollected>>
reignVars  == <<currentKing, currentReignStartTime, currentReignLastAccrualTime,
                referencePrice, reignKings, openTime>>
routeVars  == <<reignEthRecipient, reignClaimRecipient>>
windowVars == <<takeoverWindow, takeoverWindowCursor, takeoverWindowTakeovers>>
ethVars    == <<kingEthBalance, totalKingEthOwed, refundEthBalance, totalRefundEthOwed,
                shareholderEthPending, lastShareholderRetryTs, ethBalance,
                ethReceived, ethPaid, royaltiesEth, ethSurplus>>
claimVars  == <<pendingKingClaim, totalPendingKingClaim, claimBalance, claimPaid,
                claimSurplus>>
vars == <<now, pauseVars, reignVars, routeVars, windowVars, ethVars, claimVars, lockVars>>

currentReignId == Len(reignKings)
Zero == [a \in Accounts |-> 0]
Plus(f, a, x) == [b \in Accounts |-> IF b = a THEN f[b] + x ELSE f[b]]

CoreTypeOK ==
  /\ now \in Nat
  /\ guardian \in Guardians
  /\ takeoversPaused \in BOOLEAN /\ genesisKingClaimCollected \in BOOLEAN
  /\ pausedSince \in Nat
  /\ currentKing \in Accounts \cup {NoOne}
  /\ currentReignStartTime \in Nat /\ currentReignLastAccrualTime \in Nat
  /\ referencePrice \in Nat
  /\ reignEthRecipient \in Accounts \cup {NoOne}
  /\ reignClaimRecipient \in Accounts \cup {NoOne}
  /\ reignKings \in Seq(Accounts)
  /\ openTime \in Nat

WindowTypeOK ==
  /\ takeoverWindow \in [Slots -> Accounts \cup {NoOne}]
  /\ takeoverWindowCursor \in Slots
  /\ takeoverWindowTakeovers \in [Accounts -> Nat]

LedgerTypeOK ==
  /\ kingEthBalance \in [Accounts -> Nat] /\ totalKingEthOwed \in Nat
  /\ refundEthBalance \in [Accounts -> Nat] /\ totalRefundEthOwed \in Nat
  /\ shareholderEthPending \in Nat /\ lastShareholderRetryTs \in Nat
  /\ ethBalance \in Nat /\ ethSurplus \in Nat
  /\ ethReceived \in Nat /\ ethPaid \in [Accounts -> Nat] /\ royaltiesEth \in Nat
  /\ pendingKingClaim \in [Accounts -> Nat] /\ totalPendingKingClaim \in Nat
  /\ claimBalance \in Nat /\ claimPaid \in [Accounts -> Nat] /\ claimSurplus \in Nat

TypeOK == CoreTypeOK /\ WindowTypeOK /\ LedgerTypeOK /\ LockTypeOK

Init ==
  /\ now = EMISSION_START
  /\ guardian = "owner"
  /\ takeoversPaused = TRUE /\ pausedSince = 0 /\ genesisKingClaimCollected = FALSE
  /\ currentKing = NoOne
  /\ currentReignStartTime = 0 /\ currentReignLastAccrualTime = 0
  /\ referencePrice = TAKEOVER_PRICE_FLOOR
  /\ reignEthRecipient = NoOne /\ reignClaimRecipient = NoOne
  /\ reignKings = <<>> /\ openTime = 0
  /\ takeoverWindow = [i \in Slots |-> NoOne] /\ takeoverWindowCursor = 0
  /\ takeoverWindowTakeovers = Zero
  /\ kingEthBalance = Zero /\ totalKingEthOwed = 0
  /\ refundEthBalance = Zero /\ totalRefundEthOwed = 0
  /\ shareholderEthPending = 0 /\ lastShareholderRetryTs = 0
  /\ ethBalance = 0 /\ ethSurplus = 0
  /\ ethReceived = 0 /\ ethPaid = Zero /\ royaltiesEth = 0
  /\ pendingKingClaim = Zero /\ totalPendingKingClaim = 0
  /\ claimBalance = 0 /\ claimPaid = Zero /\ claimSurplus = 0
  /\ LockInit

-----------------------------------------------------------------------------
(* A takeover, step by step.  ExecuteTakeover conjoins the parts.          *)

getTakeoverPrice ==
  takeoverPrice(currentKing, currentReignStartTime, referencePrice, now)

(* Mutant: the first takeover shares the price with a King that is not there. *)
KingShareFromGenesis(price) == (price * KING_ETH_SHARE_PCT) \div KING_ETH_SHARE_DENOM

KingShare(price) ==
  IF currentKing = NoOne THEN 0 ELSE (price * KING_ETH_SHARE_PCT) \div KING_ETH_SHARE_DENOM

(* The price and the overpayment come in; the King's share, the royalties and
   the refund go out, or into their buckets when the callee does not take
   them.  Before the first King everything goes to the shareholders. *)
SettleEth(price, creditedEth, refundTo) ==
  \E pushed \in Answers("kingPush"), taken \in Answers("royalties"),
     refunded \in Answers("refund") :
    LET share      == KingShare(price)
        royalty    == price - share
        refund     == creditedEth - price
        sentShare   == IF pushed THEN share ELSE 0
        sentRoyalty == IF taken THEN royalty ELSE 0
        sentRefund  == IF refunded THEN refund ELSE 0
    IN  /\ kingEthBalance' = Plus(kingEthBalance, reignEthRecipient, share - sentShare)
        /\ totalKingEthOwed' = totalKingEthOwed + (share - sentShare)
        /\ shareholderEthPending' = shareholderEthPending + (royalty - sentRoyalty)
        /\ refundEthBalance' = Plus(refundEthBalance, refundTo, refund - sentRefund)
        /\ totalRefundEthOwed' = totalRefundEthOwed + (refund - sentRefund)
        /\ ethBalance' = ethBalance + creditedEth - (sentShare + sentRoyalty + sentRefund)
        /\ ethPaid' = Plus(Plus(ethPaid, reignEthRecipient, sentShare), refundTo, sentRefund)
        /\ royaltiesEth' = royaltiesEth + sentRoyalty
        /\ ethReceived' = ethReceived + creditedEth
        /\ UNCHANGED <<lastShareholderRetryTs, ethSurplus>>

kingLiquidShareBps(king) ==
  LET bps == (takeoverWindowTakeovers[king] * 10000) \div TAKEOVER_WINDOW_LEN
  IN  IF bps > KING_LIQUID_SHARE_MAX_BPS THEN KING_LIQUID_SHARE_MAX_BPS ELSE bps

(* The route can also fail because the recipient holds all the locks it may. *)
LockMayFail(a) ==
  "lock" \in Unreliable \/ (Destination(a) = NoLock /\ nextTokenId \notin LockIds)

(* Mutant: the credit is left out of the total. *)
CreditPendingKingClaimUncounted(a, amount) ==
  /\ pendingKingClaim' = Plus(pendingKingClaim, a, amount)
  /\ UNCHANGED totalPendingKingClaim

CreditPendingKingClaim(a, amount) ==
  /\ pendingKingClaim' = Plus(pendingKingClaim, a, amount)
  /\ totalPendingKingClaim' = totalPendingKingClaim + amount

(* Mutant: the lock route is not caught. *)
SettlePrevKingClaimUncaught(recipient, claimAmount) ==
  LET liquid == mulDiv(claimAmount, kingLiquidShareBps(currentKing), 10000)
  IN  /\ claimPaid' = Plus(claimPaid, recipient, claimAmount)
      /\ IF claimAmount > liquid THEN RouteClaimToLock(recipient) ELSE UNCHANGED lockVars
      /\ UNCHANGED <<pendingKingClaim, totalPendingKingClaim, claimBalance>>

(* The CLAIM mined by the reign: a liquid slice earned by the King's share of
   the window, the rest minted here and routed into a lock, or credited when
   gas is short or the route fails. *)
SettlePrevKingClaim(recipient, claimAmount) ==
  LET liquid == mulDiv(claimAmount, kingLiquidShareBps(currentKing), 10000)
      locked == claimAmount - liquid
  IN  \/ /\ locked > 0
         /\ RouteClaimToLock(recipient)
         /\ claimPaid' = Plus(claimPaid, recipient, liquid + locked)
         /\ UNCHANGED <<pendingKingClaim, totalPendingKingClaim, claimBalance>>
      \/ /\ locked > 0
         /\ LockMayFail(recipient)
         /\ RouteClaimFails(recipient)
         /\ claimPaid' = Plus(claimPaid, recipient, liquid)
         /\ claimBalance' = claimBalance + locked
         /\ CreditPendingKingClaim(recipient, locked)
      \/ /\ locked = 0
         /\ claimPaid' = Plus(claimPaid, recipient, liquid)
         /\ UNCHANGED <<pendingKingClaim, totalPendingKingClaim, claimBalance, lockVars>>

SettleClaim ==
  /\ IF currentKing = NoOne
     THEN UNCHANGED <<pendingKingClaim, totalPendingKingClaim, claimBalance, claimPaid,
                      lockVars>>
     ELSE SettlePrevKingClaim(reignClaimRecipient,
                              kingEmitted(currentReignLastAccrualTime, now))
  /\ UNCHANGED claimSurplus

(* Mutant: the evicted King keeps its count. *)
RecordTakeoverWithoutEviction(newKing) ==
  /\ takeoverWindow' = [takeoverWindow EXCEPT ![takeoverWindowCursor] = newKing]
  /\ takeoverWindowTakeovers' = Plus(takeoverWindowTakeovers, newKing, 1)
  /\ takeoverWindowCursor' = (takeoverWindowCursor + 1) % TAKEOVER_WINDOW_LEN

(* The oldest slot of the ring is overwritten and its King forgotten. *)
RecordTakeover(newKing) ==
  LET evicted   == takeoverWindow[takeoverWindowCursor]
      remaining == [a \in Accounts |->
                      IF a = evicted /\ takeoverWindowTakeovers[a] > 0
                      THEN takeoverWindowTakeovers[a] - 1
                      ELSE takeoverWindowTakeovers[a]]
  IN  /\ takeoverWindow' = [takeoverWindow EXCEPT ![takeoverWindowCursor] = newKing]
      /\ takeoverWindowTakeovers' = Plus(remaining, newKing, 1)
      /\ takeoverWindowCursor' = (takeoverWindowCursor + 1) % TAKEOVER_WINDOW_LEN

StartReign(newKing, ethRecipient, claimRecipient, price) ==
  /\ currentKing' = newKing
  /\ currentReignStartTime' = now /\ currentReignLastAccrualTime' = now
  /\ referencePrice' = 2 * price
  /\ reignEthRecipient' = ethRecipient /\ reignClaimRecipient' = claimRecipient
  /\ reignKings' = Append(reignKings, newKing)
  /\ openTime' = 0

ExecuteTakeover(creditedEth, price, newKing, ethRecipient, claimRecipient, refundTo) ==
  /\ ~takeoversPaused
  /\ newKing # currentKing
  /\ creditedEth >= price
  /\ currentReignId < MaxReigns                   \* bound
  /\ SettleEth(price, creditedEth, refundTo)
  /\ SettleClaim
  /\ StartReign(newKing, ethRecipient, claimRecipient, price)
  /\ RecordTakeover(newKing)
  /\ UNCHANGED <<now, pauseVars>>

(* takeover, and the token takeovers once the token is swapped to ETH. *)
Takeover(sender, overpaid) ==
  ExecuteTakeover(getTakeoverPrice + overpaid, getTakeoverPrice, sender, sender, sender,
                  sender)

TakeoverFor(sender, newKing, overpaid) ==
  LET claimRecipient == IF isAuthorized(newKing, sender, "ROUTE_REIGN_CLAIM_TO_CALLER")
                        THEN sender ELSE newKing
  IN  /\ isAuthorized(newKing, sender, "TAKEOVER_FOR")
      /\ ExecuteTakeover(getTakeoverPrice + overpaid, getTakeoverPrice, newKing, sender,
                         claimRecipient, sender)

-----------------------------------------------------------------------------
(* Withdrawals and retries. *)

(* Mutant: the bucket is not emptied. *)
WithdrawKingBalanceAgain(user) ==
  LET amount == kingEthBalance[user]
  IN  /\ 0 < amount /\ amount <= totalKingEthOwed
      /\ totalKingEthOwed' = totalKingEthOwed - amount
      /\ ethBalance' = ethBalance - amount
      /\ ethPaid' = Plus(ethPaid, user, amount)
      /\ UNCHANGED <<kingEthBalance, refundEthBalance, totalRefundEthOwed,
                     shareholderEthPending, lastShareholderRetryTs, ethReceived, royaltiesEth,
                     ethSurplus>>
      /\ UNCHANGED <<now, pauseVars, reignVars, routeVars, windowVars, claimVars, lockVars>>

(* withdrawKingBalance, ...To and ...For: to the named destination, else to
   the user, else the transaction reverts. *)
WithdrawKingBalance(user) ==
  LET amount == kingEthBalance[user]
  IN  /\ amount > 0
      /\ kingEthBalance' = [kingEthBalance EXCEPT ![user] = 0]
      /\ totalKingEthOwed' = totalKingEthOwed - amount
      /\ ethBalance' = ethBalance - amount
      /\ ethPaid' = Plus(ethPaid, user, amount)
      /\ UNCHANGED <<refundEthBalance, totalRefundEthOwed, shareholderEthPending,
                     lastShareholderRetryTs, ethReceived, royaltiesEth,
                     ethSurplus>>
      /\ UNCHANGED <<now, pauseVars, reignVars, routeVars, windowVars, claimVars, lockVars>>

(* Mutant: the refund leaves the contract but not the total. *)
WithdrawRefundBalanceUncounted(user) ==
  LET amount == refundEthBalance[user]
  IN  /\ amount > 0
      /\ refundEthBalance' = [refundEthBalance EXCEPT ![user] = 0]
      /\ ethBalance' = ethBalance - amount
      /\ ethPaid' = Plus(ethPaid, user, amount)
      /\ UNCHANGED <<kingEthBalance, totalKingEthOwed, totalRefundEthOwed,
                     shareholderEthPending, lastShareholderRetryTs, ethReceived, royaltiesEth,
                     ethSurplus>>
      /\ UNCHANGED <<now, pauseVars, reignVars, routeVars, windowVars, claimVars, lockVars>>

WithdrawRefundBalance(user) ==
  LET amount == refundEthBalance[user]
  IN  /\ amount > 0
      /\ refundEthBalance' = [refundEthBalance EXCEPT ![user] = 0]
      /\ totalRefundEthOwed' = totalRefundEthOwed - amount
      /\ ethBalance' = ethBalance - amount
      /\ ethPaid' = Plus(ethPaid, user, amount)
      /\ UNCHANGED <<kingEthBalance, totalKingEthOwed, shareholderEthPending,
                     lastShareholderRetryTs, ethReceived, royaltiesEth,
                     ethSurplus>>
      /\ UNCHANGED <<now, pauseVars, reignVars, routeVars, windowVars, claimVars, lockVars>>

(* withdrawPendingClaim[To]: the credit is locked for `to`, never paid out. *)
WithdrawPendingClaim(user, to) ==
  LET amount == pendingKingClaim[user]
  IN  /\ amount > 0
      /\ RouteClaimToLock(to)
      /\ pendingKingClaim' = [pendingKingClaim EXCEPT ![user] = 0]
      /\ totalPendingKingClaim' = totalPendingKingClaim - amount
      /\ claimBalance' = claimBalance - amount
      /\ claimPaid' = Plus(claimPaid, user, amount)
      /\ UNCHANGED <<now, pauseVars, reignVars, routeVars, windowVars, ethVars, claimSurplus>>

(* At most once per cadence; the bucket is restored when royalties refuse. *)
RetryPushShareholderEth ==
  /\ ~takeoversPaused
  /\ now >= lastShareholderRetryTs + RETRY_CADENCE
  /\ shareholderEthPending > 0
  /\ lastShareholderRetryTs' = now
  /\ \E taken \in Answers("royalties") :
       LET sent == IF taken THEN shareholderEthPending ELSE 0
       IN  /\ shareholderEthPending' = shareholderEthPending - sent
           /\ ethBalance' = ethBalance - sent
           /\ royaltiesEth' = royaltiesEth + sent
  /\ UNCHANGED <<kingEthBalance, totalKingEthOwed, refundEthBalance, totalRefundEthOwed,
                 ethReceived, ethPaid, ethSurplus>>
  /\ UNCHANGED <<now, pauseVars, reignVars, routeVars, windowVars, claimVars, lockVars>>

-----------------------------------------------------------------------------
(* Roles, pauses, routing. *)

(* Until the genesis bucket is collected only the owner may appoint, only the
   LaunchController may be appointed, and once it is in it stays. *)
SetGuardian(newGuardian) ==
  /\ ~genesisKingClaimCollected =>
       guardian # "launchController" /\ newGuardian = "launchController"
  /\ guardian' = newGuardian
  /\ UNCHANGED <<takeoversPaused, pausedSince, genesisKingClaimCollected>>
  /\ UNCHANGED <<now, reignVars, routeVars, windowVars, ethVars, claimVars, lockVars>>

(* Mutant: the end of the genesis window is not awaited. *)
CollectGenesisKingClaimEarly ==
  /\ guardian = "launchController" /\ ~genesisKingClaimCollected
  /\ genesisKingClaimCollected' = TRUE
  /\ UNCHANGED <<guardian, takeoversPaused, pausedSince>>
  /\ UNCHANGED <<now, reignVars, routeVars, windowVars, ethVars, claimVars, lockVars>>

CollectGenesisKingClaim ==
  /\ guardian = "launchController"
  /\ ~genesisKingClaimCollected
  /\ now >= EMISSION_START + GENESIS_ACCRUAL_DURATION
  /\ genesisKingClaimCollected' = TRUE
  /\ UNCHANGED <<guardian, takeoversPaused, pausedSince>>
  /\ UNCHANGED <<now, reignVars, routeVars, windowVars, ethVars, claimVars, lockVars>>

(* Mutant: the start of the pause is not recorded. *)
PauseTakeoversUnrecorded ==
  /\ ~takeoversPaused
  /\ takeoversPaused' = TRUE
  /\ UNCHANGED <<guardian, pausedSince, genesisKingClaimCollected>>
  /\ UNCHANGED <<now, reignVars, routeVars, windowVars, ethVars, claimVars, lockVars>>

(* setTakeoversPaused(true): the accrual cursor stays where it is. *)
PauseTakeovers ==
  /\ ~takeoversPaused
  /\ takeoversPaused' = TRUE
  /\ pausedSince' = IF currentKing # NoOne THEN now ELSE pausedSince
  /\ UNCHANGED <<guardian, genesisKingClaimCollected>>
  /\ UNCHANGED <<now, reignVars, routeVars, windowVars, ethVars, claimVars, lockVars>>

(* setTakeoversPaused(false): the cursor moves by the length of the pause. *)
UnpauseTakeovers ==
  /\ takeoversPaused
  /\ genesisKingClaimCollected
  /\ takeoversPaused' = FALSE
  /\ pausedSince' = 0
  /\ currentReignLastAccrualTime' =
       IF pausedSince # 0 THEN currentReignLastAccrualTime + (now - pausedSince)
       ELSE currentReignLastAccrualTime
  /\ UNCHANGED <<guardian, genesisKingClaimCollected, currentKing, currentReignStartTime,
                 referencePrice, reignKings, openTime>>
  /\ UNCHANGED <<now, routeVars, windowVars, ethVars, claimVars, lockVars>>

(* A delegate may send the ETH anywhere, or only to itself; the CLAIM
   anywhere, or only back to the King; and must have changed something. *)
MaySetRecipients(caller, e, c) ==
  \/ caller = currentKing
  \/ /\ <<e, c>> # <<reignEthRecipient, reignClaimRecipient>>
     /\ e # reignEthRecipient =>
          \/ isAuthorized(currentKing, caller, "SET_REIGN_ETH_RECIPIENT")
          \/ /\ e = caller
             /\ isAuthorized(currentKing, caller, "SET_REIGN_ETH_RECIPIENT_TO_CALLER_ONLY")
     /\ c # reignClaimRecipient =>
          \/ isAuthorized(currentKing, caller, "SET_REIGN_CLAIM_RECIPIENT")
          \/ /\ c = currentKing
             /\ isAuthorized(currentKing, caller, "SET_REIGN_CLAIM_RECIPIENT_TO_USER_ONLY")

SetCurrentReignRecipients(caller, e, c) ==
  /\ currentKing # NoOne
  /\ MaySetRecipients(caller, e, c)
  /\ reignEthRecipient' = e /\ reignClaimRecipient' = c
  /\ UNCHANGED <<now, pauseVars, reignVars, windowVars, ethVars, claimVars, lockVars>>

-----------------------------------------------------------------------------
(* Untracked balances and the clock. *)

(* ETH that no function received (a block reward, a self-destruct). *)
ForceEth(amount) ==
  /\ ethSurplus = 0                               \* bound
  /\ ethBalance' = ethBalance + amount
  /\ ethSurplus' = ethSurplus + amount
  /\ UNCHANGED <<kingEthBalance, totalKingEthOwed, refundEthBalance, totalRefundEthOwed,
                 shareholderEthPending, lastShareholderRetryTs, ethReceived, ethPaid, royaltiesEth>>
  /\ UNCHANGED <<now, pauseVars, reignVars, routeVars, windowVars, claimVars, lockVars>>

DonateClaim(amount) ==
  /\ claimSurplus = 0                             \* bound
  /\ claimBalance' = claimBalance + amount
  /\ claimSurplus' = claimSurplus + amount
  /\ UNCHANGED <<pendingKingClaim, totalPendingKingClaim, claimPaid>>
  /\ UNCHANGED <<now, pauseVars, reignVars, routeVars, windowVars, ethVars, lockVars>>

(* Mutant: the parked refunds look like surplus. *)
trackedEthWithoutRefunds == shareholderEthPending + totalKingEthOwed

trackedEth == shareholderEthPending + totalKingEthOwed + totalRefundEthOwed

RescueEth ==
  LET rescuable == ethBalance - trackedEth
  IN  /\ rescuable > 0
      /\ ethBalance' = ethBalance - rescuable
      /\ ethSurplus' = ethSurplus - rescuable
      /\ UNCHANGED <<kingEthBalance, totalKingEthOwed, refundEthBalance, totalRefundEthOwed,
                     shareholderEthPending, lastShareholderRetryTs, ethReceived, ethPaid,
                     royaltiesEth>>
      /\ UNCHANGED <<now, pauseVars, reignVars, routeVars, windowVars, claimVars, lockVars>>

RescueClaim ==
  LET rescuable == claimBalance - totalPendingKingClaim
  IN  /\ rescuable > 0
      /\ claimBalance' = claimBalance - rescuable
      /\ claimSurplus' = claimSurplus - rescuable
      /\ UNCHANGED <<pendingKingClaim, totalPendingKingClaim, claimPaid>>
      /\ UNCHANGED <<now, pauseVars, reignVars, routeVars, windowVars, ethVars, lockVars>>

Tick ==
  /\ now < MaxTime                                \* bound
  /\ now' = now + 1
  /\ openTime' = IF currentKing # NoOne /\ ~takeoversPaused THEN openTime + 1 ELSE openTime
  /\ UNCHANGED <<currentKing, currentReignStartTime, currentReignLastAccrualTime,
                 referencePrice, reignKings>>
  /\ UNCHANGED <<pauseVars, routeVars, windowVars, ethVars, claimVars, lockVars>>

LocksMove ==
  /\ LockSteps
  /\ UNCHANGED <<now, pauseVars, reignVars, routeVars, windowVars, ethVars, claimVars>>

Next ==
  \/ \E sender \in Accounts, x \in Overpayments : Takeover(sender, x)
  \/ \E sender, newKing \in Accounts, x \in Overpayments : TakeoverFor(sender, newKing, x)
  \/ \E user \in Accounts : WithdrawKingBalance(user)
  \/ \E user \in Accounts : WithdrawRefundBalance(user)
  \/ \E user, to \in Accounts : WithdrawPendingClaim(user, to)
  \/ RetryPushShareholderEth
  \/ \E g \in Guardians : SetGuardian(g)
  \/ CollectGenesisKingClaim
  \/ PauseTakeovers
  \/ UnpauseTakeovers
  \/ \E caller \in Accounts, e, c \in Recipients : SetCurrentReignRecipients(caller, e, c)
  \/ \E x \in ForcedEth : ForceEth(x)
  \/ \E x \in DonatedClaim : DonateClaim(x)
  \/ RescueEth
  \/ RescueClaim
  \/ Tick
  \/ LocksMove

Spec == Init /\ [][Next]_vars

-----------------------------------------------------------------------------
(***************************************************************************)
(* Whatever mixture of pushes, failures, withdrawals, retries and rescues  *)
(* happened, the ETH held is what the buckets say is owed plus what was    *)
(* forced upon the contract: no withdrawal can run dry, and rescueEth can  *)
(* take no one's money.                                                    *)
(***************************************************************************)
EthBacked == ethBalance = trackedEth + ethSurplus

(* The same for the CLAIM held for later locking, and rescueClaim. *)
ClaimBacked == claimBalance = totalPendingKingClaim + claimSurplus

(***************************************************************************)
(* The three running totals, which rescueEth and rescueClaim trust, are    *)
(* the sums of the per-account buckets.                                    *)
(***************************************************************************)
Total(f) == FoldFunction(LAMBDA x, y : x + y, 0, f)

TotalsAreSums ==
  /\ totalKingEthOwed = Total(kingEthBalance)
  /\ totalRefundEthOwed = Total(refundEthBalance)
  /\ totalPendingKingClaim = Total(pendingKingClaim)

(***************************************************************************)
(* The cursor the next settlement mints from lies exactly the reign's      *)
(* unpaused seconds back, whatever sequence of pauses the guardian made:   *)
(* a pause excludes the paused seconds and forfeits none before it.        *)
(***************************************************************************)
AccruedUntil == IF pausedSince # 0 THEN pausedSince ELSE now

AccrualCountsOpenTime ==
  currentKing # NoOne => AccruedUntil - currentReignLastAccrualTime = openTime

(***************************************************************************)
(* The ring that sets the liquid share is the list of the last takeovers:  *)
(* slot s holds the King who took the throne Age(s) takeovers ago, and the *)
(* counters are the number of slots each King holds.                       *)
(***************************************************************************)
Age(s) == IF s < takeoverWindowCursor
          THEN takeoverWindowCursor - 1 - s
          ELSE takeoverWindowCursor - 1 - s + TAKEOVER_WINDOW_LEN

SlotsOf(a) == {s \in Slots : takeoverWindow[s] = a}

RingHoldsRecentReigns ==
  \A s \in Slots :
    takeoverWindow[s] = IF Age(s) < currentReignId
                        THEN reignKings[currentReignId - Age(s)] ELSE NoOne

CountsMatchRing == \A a \in Accounts : takeoverWindowTakeovers[a] = Cardinality(SlotsOf(a))

WindowIsRecentTakeovers == RingHoldsRecentReigns /\ CountsMatchRing

(***************************************************************************)
(* "Failure MUST NOT revert takeover": whoever refuses ETH, however the    *)
(* lock route fails and whatever the previous King configured, an open     *)
(* throne can be taken by everybody but its King.                          *)
(***************************************************************************)
ThroneNeverBricked ==
  ~takeoversPaused /\ currentReignId < MaxReigns =>
    \A a \in Accounts \ {currentKing} : \E x \in Overpayments : ENABLED Takeover(a, x)

(***************************************************************************)
(* No King before the genesis bucket has been collected: the first reign   *)
(* and the LaunchController's one-off mint never compete.                  *)
(***************************************************************************)
ThroneOpensAfterGenesis ==
  currentKing # NoOne \/ ~takeoversPaused =>
    /\ genesisKingClaimCollected
    /\ now >= EMISSION_START + GENESIS_ACCRUAL_DURATION

(***************************************************************************)
(* Parking, withdrawing, retrying and rescuing change nobody's             *)
(* entitlement: MineCore implements the ledger in which a takeover pays    *)
(* everyone at once.                                                       *)
(***************************************************************************)
Ledger == INSTANCE ThroneLedger WITH
  king            <- currentKing,
  ethRecipient    <- reignEthRecipient,
  claimRecipient  <- reignClaimRecipient,
  ethDue          <- [a \in Accounts |-> ethPaid[a] + kingEthBalance[a] + refundEthBalance[a]],
  paidIn          <- ethReceived,
  shareholdersDue <- royaltiesEth + shareholderEthPending,
  claimDue        <- [a \in Accounts |-> claimPaid[a] + pendingKingClaim[a]]

ImplementsThroneLedger == Ledger!Spec
=============================================================================
