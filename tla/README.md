# ClaimRush: specifications

ClaimRush is an on-chain game. Anyone can become **King** by paying the current
Dutch-auction price; the dethroned King receives 75 % of that price, the holders of
locked CLAIM (shareholders) receive 25 %, and the King mines CLAIM while reigning.
Mined CLAIM is partly paid out and partly locked as veCLAIM NFTs through the Furnace;
locks decay, earn royalties, and can be sold. An off-chain keeper drives the
permissionless maintenance calls, an agent SDK plays for its users, and a subgraph
mirrors the contracts.

This directory holds TLA+ modules translated from that code, TLC configurations that check
them on small instances, and TLAPS proofs. `PROJECT.json` lists the components, the runs,
the mutants, the hazards at their lines, the theorems, and for each definition the lines
it models.

## 1. Inventory

| Component | State it keeps | Operations | What makes it correct |
|---|---|---|---|
| `MineCore` | King and reign, accrual cursor, pause, takeover ring, three payment buckets with totals, CLAIM credits, auto-lock configuration | takeovers, withdrawals, retry, pause, guardian, genesis collection, rescue, recipients | balances cover what is owed; nobody can block the throne; emission follows open time; the ring counts recent takeovers |
| `MineCoreHelper` | none | price, emission integrals, lock resolution | emission within the schedule, rounding bounded |
| `ShareholderRoyalties` | cumulative indices, per-user watermarks, stored/indexed/pending buckets, checkpoint array and ring | onTakeover, flush, checkpointUser, claim, sweep | buckets add up; a lock earns only while it weighs; eviction takes nothing still needed |
| `VeClaimNFT` | locks, global bias and slope, expiry heap | create, top up, extend, merge, unlock, list, autoMax, checkpoint | global sums agree with the live locks |
| `Furnace` (+ helpers) | reserve, LP stream and carry, drip clock, sale caps | enter, extend, sell, tick, vault rewire | reserve + stream <= CLAIM held; each vault gets what it was promised |
| `MarketRouter` | listings, bonus-target escrows, per-user index arrays, cooldowns | list, delist, expire, sell, create/cancel/extend/execute offer, emergency delist | escrow spent once; listing and lock agree; arrays consistent |
| `LpStakingVault7D` | stake, unbonds, reward index, carry, accounted balance | stake, unbond, withdraw, claim, compound, harvest, notify | credited <= indexed <= accounted <= balance; no unbond lost |
| `LaunchController`, `GenesisLPVault24M` | one-shot genesis, LP lock | finalizeGenesis, startLock, withdraw | once and in order |
| `DelegationHub` | sessions | set, revoke, isAuthorized | an expired session authorises nothing |
| Keeper: locks and process | lock file, host socket, pause file, breaker state, settlement file, schedule, sockets | acquire, heartbeat, send, trip, settle, poll | one keeper works; a stop holds, and ends |
| Keeper: scans and tasks | worklists with their blocks, cursors, cooldowns, queues | scan, compound, poke, claim bonuses, checkpoint, sweep | nothing is left out; no cursor passes undone work |
| Agent SDK | nonces, event cursor, backoff, plan | executor, transaction manager, event stream, loop | reports are true; a write is mined once; an event is handled once |
| Subgraph | mirror entities, daily and hourly totals, yields | handlers of the contracts' events | the mirror says what the contracts hold |

**Interaction.** `MineCore` mints CLAIM, credits the `Furnace` reserve, enters the Furnace
for the locked part, and sends ETH to `ShareholderRoyalties`. The Furnace creates and burns
locks in `VeClaimNFT`; before any weight change `VeClaimNFT` checkpoints its owner in the
royalties. `MarketRouter` lists locks and sells them to the Furnace, which streams rewards
to the staking vault. A contract call is atomic. The concurrency is between transactions,
whose order nobody controls, and, inside one, in which callees fail, since `MineCore`
catches those failures. Off the chain every `await` and every file operation is a place
where another task, process, node or user comes between, and where a process may die.

**Hard behaviours.** Partial failure inside a takeover; parked payments withdrawn and
retried in any order; lazily settled emissions across pauses; locks validated at one time
and used at another; reward reconstruction from a ring of checkpoints; keepers that race
each other through a lock file; sends that were under way when the keeper was told to stop;
worklists read from lagging nodes and reorganised chains; time-outs that race late receipts;
mirrors that read contract state from the end of a block while they handle its first event.

## 2. Modules

| Module | Models |
|---|---|
| `MineCoreHelper` | price curve and emission integrals (operators only) |
| `Emission` | the accrual cursor of `MineCore` under takeovers and pauses, over a long horizon |
| `KingAutoLock` | `_routeClaimToLock`, `setKingAutoLockConfig`, and the life of the locks they use |
| `MineCore` | the throne, with `KingAutoLock` inside |
| `ThroneLedger` | what the throne promises: entitlements, with no failure in sight (abstract) |
| `VeLocks`, `ShareholderRoyalties` | the lock table, and the royalties composed with it |
| `LpStakingVault7D` | the LP staking vault |
| `MarketRouter` | listings and escrows, with the ve contract's side and router replacement |
| `Furnace` | reserve, LP stream, drip, sales, vault changes |
| `SubgraphMarket`, `SubgraphFurnace` | the mirrors of those two, composed with them event by event |
| `SubgraphThrone`, `SubgraphApr` | the mirror of throne, payouts, sessions and compounding; the yields |
| `KeeperLock` | lock file and host socket, one system call a step |
| `KeeperTx` | `sendContractTx` between pause file and circuit breaker, one await a step |
| `Settlement` | settlement windows through restarts, lost files and new settings |
| `EventBus`, `KeeperDaemon` | WebSocket bus; the interval loop over it |
| `KeeperScan` | the six log scans behind the worklists |
| `KeeperRewards`, `KeeperPoke`, `KeeperLocks`, `KeeperMarket` | the tasks: compounding, poke, bonuses and checkpoints, market sweeps |
| `AgentTx`, `AgentEvents` | the SDK's transaction manager and event stream |
| `AgentExecutor` | each of the executor's actions, from policy to receipt |
| `AgentLoop` | the agent's tick: snapshot, plan, act, sleep |
| `MCMineCore`, `MCContracts`, `MCShareholderRoyalties`, `MCMarket`, `MCFurnace`, `MCExchange`, `MCKeeperDaemon`, `MCKeeperDuties`, `MCClients` | instances for TLC |
| `SumTheorems`, `MineCoreProofs`, `ShareholderRoyaltiesProofs`, `ContractProofs`, `MarketRouterProofs`, `FurnaceProofs`, `KeeperProofs`, `AgentProofs` | theorems |

Machines that share no state share an instance: an `MC` module has a variable (`contract`,
`machine`, `duties`, `client`, `side`) that says which of them a behaviour is of, chosen in
the first state; the others rest. So a run explores the sum of their state spaces and not
the product.

**How `MineCore` corresponds to the code.** One action per external entry point, or per
family of them that differ only in their arguments: `Takeover` is `takeover` and both token
takeovers (a swapped token arrives as ETH), `WithdrawKingBalance` its three variants.
`ExecuteTakeover` conjoins the parts of `_executeTakeover`: `SettleEth` (push, royalties,
refund), `SettleClaim` (emission, liquid share, lock route), `StartReign`, `RecordTakeover`.
A revert is no step. Whether a callee accepts is a choice of the environment, made per
call: the constant `Unreliable` names the calls that may fail. The buckets, the ring, the
cursor and the routing configuration keep the names of the source. History variables record
what was paid to whom, what came in, what was forced on the contract and the unpaused
seconds of the reign. They guard nothing. Guards that can only make a transaction revert and
whose state is not modelled (maximum price, deadline, wiring, ve checkpoint freshness) are
left out: the model then allows more takeovers than the code, which the safety properties
must bear. `ThroneNeverBricked` is about what remains and says nothing of a stale
checkpoint. The 256-bit width is not modelled for prices; a doubled price reaches it only
after some 200 uninterrupted doublings, and the code saturates there.

**The lock route.** `KingAutoLock` keeps of a veNFT what `_resolveExistingToken` can tell
apart: its owner, whether it is listed, and whether it is perpetual, has at least
`KING_FORCE_LOCK_MIN_DURATION` left (`full`), less (`short`), or is expired. The seven-day
arithmetic becomes the step `AgeLock`. A failed route may or may not have dropped a stale
pin first, and `RouteClaimFails` has both outcomes.

**The emission clock.** `Emission` repeats four actions of `MineCore` (`Settle` is the
accrual part of a takeover) so that TLC can afford a horizon that crosses the end of the
decay period with several pauses. Its reference is the exact integral of the schedule,
multiplied by twice the decay period to stay in the integers.

**Royalties and locks.** An action of `ShareholderRoyalties` is a transaction with all its
calls between `VeClaimNFT`, the royalties and the Furnace. Each lock mutator does the same
three things, which `AroundLockChange` conjoins with the operation of `VeLocks`: it
checkpoints its owner with the old locks, changes the lock, and reports the owner's
earliest decaying end. A checkpoint is a record in a sequence, the ring a sequence with
`overflowRingHead`. The binary search of `_getRewardPrefixBefore` is modelled by its result
on an ordered history; that the history is ordered is the theorem `HistoryStaysInOrder`.
`VeClaimNFT` aggregates slopes with roundings of its own: `Drifts` is by how much the total it
reports may exceed the sum of the weights, `Freshness` whether a global checkpoint may fail
to catch up. Ghosts: `earned` is what each user's locks earned flush by flush, from their
weights at that moment, which the code never computes; `clipped` what the clamp took. Two
operator actions are modelled within their documented use: a recomputation covers every
holder of a decaying lock, and a forced watermark is one that analysis has shown to be safe.

**The staking vault.** `books` holds the five accounting variables that a checkpoint and a
credit change together, and the internal functions are operators on books, so that a
transaction composes them in the order of the code. CLAIM arrives notified or not, by a
harvest, or nested in `ClaimRewardsAndLock` and `CompoundFor`, where the Furnace streams to
the vault that is calling it and the rejected notification is swallowed. Whether a
compounding's destination, minimum, quote and entry are good are choices. History: `due`
shares each arrival by the stakes of that moment; `begun`, `exitedAt` and `lpTaken` record
unbondings and what withdrawals paid.

**Market and Furnace.** A transaction of `MarketRouter` is one action with the calls it makes
into `VeClaimNFT`; blocks are instants, and `Tick` begins the next. The ve contract obeys one
router, which its owner may replace and put back (`rewires`): listings of the old one stay
behind. What a block emitted is kept until the next for the mirror. `Furnace` is one record
that a transaction reads and writes back; its internal functions are operators on that record,
composed in the order of the code; what the quoter answers is one of a few splits.

**Mirrors.** `SubgraphMarket` extends `MarketRouter`, and `SubgraphFurnace` extends `Furnace`:
handlers run over the emitted events in order when the block ends, and what they read from a
contract is its state at the *end* of the block, which is where mirrors go wrong.

**Keeper.** A step is a system call (`KeeperLock`), what happens between two awaits
(`KeeperTx`, `KeeperMarket`, `KeeperPoke`, `KeeperScan`), or a turn of the loop (`Settlement`,
`KeeperDaemon`). Files outlive a crash; memory does not. A task that passed its soft time-out
goes on behind its successor, so several sends, and several scans, may be under way. In the
spread phase of a cycle `Settlement` runs the scheduled batches in order: one that fails stays
at the head and is tried again, one in the past runs at once, and the end of the window closes
a cycle whose batches are not done. Times
are counters to a deadline, or ages up to the limit they are compared with, so that clocks
need no horizon. What cannot be read, decoded, written or mined is a counted choice.

**Agent SDK.** An action of the executor is a list of questions to the chain and one call:
`Entries` is translated from `executorImpl.ts`, what the call needs (`Needs`, `Reached`,
`NotYet`) from the *contracts*. A fact may change between two questions and before the
call is mined; a node may fail in each, and in the broadcast and the wait. The executor runs
with and without a `TxManager`, and a call of it is one transaction: sending one again is
`AgentTx`'s. `AgentTx` keeps all copies of a replaced transaction until one is mined;
`AgentEvents` has one watcher per event, whose handling waits twice; `AgentLoop` holds what
is to be done as duties that a mined action does.

## 3. What TLC checks

| Run | Configuration | Properties |
|---|---|---|
| `minecore` | `MineCore.cfg` | `EthBacked`, `ClaimBacked`, `AccrualCountsOpenTime`, `WindowIsRecentTakeovers`, `ThroneNeverBricked`, refinement `ImplementsThroneLedger` |
| `contracts` | `Contracts.cfg` | `EmissionIsExact`, `PinsAreRouteLocks`, `DefaultRouteReusesItsLock`, `ClaimCovered`, `RewardsFollowStake`, `ExitsPaidOnTime`, `OnlyFeesCountAsFees`, `ClaimPaysWhatIsShown` |
| `royalties_buckets` | `RoyaltiesBuckets.cfg` | `BucketsPartitionBalance`, `IndexedCoversAccrual` |
| `royalties_ring` | `RoyaltiesRing.cfg` | `WatermarkCoversLocks`, `AccrualIsExact` |
| `market` | `Market.cfg` | `BooksAreKept`, `ListedLocksComeBack`, `FurnaceIsBacked`, `MirrorsTheExchange`, `MirrorsThroneAndYields` |
| `keeper_daemon` | `KeeperDaemon.cfg` | `StopHolds`, `NoActiveWindowSkipped`, `KeeperGoesOn`, `WorkIsSeen` |
| `keeper_duties` | `KeeperDuties.cfg` | `HostLockExcludes`, `RetiredReignsAreFlushed`, `CheckpointedBeforeExpiry`, `SplitBrainHeals`, `NobodyIsLeftOut`, `StoppedKeepTheirPlace` |
| `clients` | `Clients.cfg` | `ReportsAreTrue`, `PlainWritesAreMinedOnce`, `NothingStaysMissed`, `EventsAreHandledOnce`, `BlockedMeansRefused`, `LoopIsPatient`, `ClientsGoOn` |
| `king_auto_lock_pin`, `royalties_eviction`, `agent_approvals`, `agent_resubmits` | of the same names | violated, see section 4 |

Contracts:

* `EthBacked`, `ClaimBacked`: the balance is exactly the sum of the buckets' totals plus
  what was forced upon the contract, after every mixture of failures, withdrawals, retries
  and rescues. No withdrawal can run dry and a rescue moves only surplus.
* `ImplementsThroneLedger`: with an account's entitlement read as *paid + parked*, every
  step of `MineCore` is a takeover of the ledger, a change of recipients, or a stutter.
  Parking, withdrawing and retrying are invisible, and every wei a takeover brings in
  becomes somebody's entitlement.
* `AccrualCountsOpenTime`: the cursor lies exactly the open seconds of the reign back.
  `WindowIsRecentTakeovers`: the ring is the tail of the history of Kings.
* `ThroneNeverBricked`: an open throne can be taken by anyone but its King in every
  reachable state (`ENABLED`), whatever refuses to be paid and however the route fails.
* `PinsAreRouteLocks`, `DefaultRouteReusesItsLock`: a pin is a lock the route minted for
  that recipient; without a selection a new lock is minted only if the pinned one is unusable.
* `EmissionIsExact`: each stream stays within one wei per open second above the exact
  integral; it pays every open second at least the floor rate, and unpaused it falls short
  of the integral by at most one wei per settlement.
* `BucketsPartitionBalance`, `IndexedCoversAccrual`: pending, indexed and crystallised ETH add
  up to the balance, to the wei; all users' rewards exceed what is set aside for them by less
  than one wei per flush, so the clamp in `checkpointUser` takes at most the N-1 wei of its
  comment over the whole life of the contract, from all users together.
* `AccrualIsExact`: rewards reconstructed late from two cumulative indices and the history
  equal what the locks earned at each flush. After evictions this is so for every user whose
  expired locks still have a checkpoint before their end; nobody ever gets more.
* `WatermarkCoversLocks`: the eviction floor is at or below every decaying lock's end.
* `ClaimCovered`: credited <= indexed, indexed + queued = accounted <= balance, and the
  hand-kept credits are the sum over users. `RewardsFollowStake`: what a staker took and is
  shown is the share of every transfer that its stake had when the CLAIM *arrived*, not when
  it was noticed, to within the rounding of `ROUNDING` wei a transaction. `ExitsPaidOnTime`: every unbonding is paid
  in full, once, and not before its period. `OnlyFeesCountAsFees`, `ClaimPaysWhatIsShown`: a
  harvest counts only what it brought; a claim pays what the view `earned` showed.
* `BooksAreKept`: the router's CLAIM covers every live offer, and the per-user arrays with
  their positions hold each active listing and offer once, through every swap-and-pop.
  `ListedLocksComeBack`: a frozen lock can be taken back one block later; only a change of
  router lets the ve contract and the router disagree.
* `FurnaceIsBacked`: the balance is reserve plus what the vault was promised, no sync clamps
  the reserve, each vault gets, is owed or lost in an emergency what was promised to it, and
  sales stay under the daily cap.
* `MirrorsTheExchange`, `MirrorsThroneAndYields`: the subgraph's entities are the contracts'
  state at the end of every block, as far as the events allow. The throne's histories also begin
  in the middle (`Histories`); the market is indexed from its start and keeps its router there.

Keeper and agent:

* `StopHolds`: once the keeper must stop, at most as many transactions go out as sends had
  passed their last check, whatever write failed or process died; and as many failures as
  the breaker allows never count with the keeper running. `KeeperGoesOn`: a trip ends unless
  an operator is needed, and settlement cycles neither get stuck nor stop coming.
* `NoActiveWindowSkipped`: no window is passed over while it can still be used. `WorkIsSeen`:
  what there is to do is seen, at the latest by the poll, though sockets fail and logs are lost.
* `HostLockExcludes`, `SplitBrainHeals`: with the host lock one process works and its record
  is its own; without it two may, and the heartbeats stop all of them but one.
* `RetiredReignsAreFlushed`: no cursor of the poke passes a reign whose share has not been
  flushed. `CheckpointedBeforeExpiry`: an owner who is among the first `MAXOWNERS`
  by expiry in more runs than fail is checkpointed before the lock expires; the run has one
  owner more than that, who may be left out (section 4).
  `StoppedKeepTheirPlace`: who lost a turn to the keeper's own stop is in the queue again.
  `NobodyIsLeftOut`: everyone is compounded, again and again; the share of every reign is
  flushed; the bonus of every lock is claimed whose owner's locks find room in a run (`Served`);
  expired offers and listings are cancelled, and those that can be executed are, within the
  reach of the backoff (`Reach`). Section 4 says who is beyond.
* `NothingStaysMissed`: when the chain settles, the worklists say what it says.
* `PlainWritesAreMinedOnce`: a write that is never resubmitted is mined at most once,
  whatever the nodes say of its nonce. `EventsAreHandledOnce`: no event is
  handled twice, unless the agent ended before saving it, the cursor was taken back or its full
  ring of keys forgot it; and a
  stream that starts from a checkpoint starts no later than the first unhandled event.
* `ReportsAreTrue`, `BlockedMeansRefused`: a reported success was mined once, a reported revert
  not; a hash is that of a transaction, and nothing was sent where the report says blocked,
  skipped or simulated. An *error* says nothing of the chain: it has no hash, although its
  transaction may be out (section 4). An action the preflight blocks is one the contract would
  refuse too, but for the differences listed in `Differs` and `OwnRules`.
* `LoopIsPatient`, `ClientsGoOn`: no broadcast during a cooldown, no sleep over unread events,
  nothing of a plan after its first failure; every write ends, and the agent's duties
  get done.

Each property has a mutant, an operator beside the definition it changes: the definition is
altered the way a bug would, and TLC then finds the property violated.

**Bounds.** Users, tokens and accounts are never compared with anything but themselves, so
they are symmetric, and two of them suffice for every distinction the code makes (King and
challenger, payer and recipient, user and delegate, two floors that add up to more than was
set aside). `MineCore` has a ring of two, which wraps and evicts within three reigns, the
least in which the second is settled with a full ring; a price floor of 5 with a decay of 2 gives prices
above, at and between; `MaxTime = 3` lets a pause begin and end inside a reign and a
retry cadence elapse. The ETH side of that run has no room for a lock, the CLAIM side one,
and each fails its own calls: the halves interact only through the reign, which both have,
and the proofs cover all combinations. `Emission` runs 13 seconds over a decay period of
10. The lock route has three locks: pinned, selected and fresh. The royalties scale weight,
index and longest lock down so that every division leaves a remainder; the ring run has an
array of one and a ring of two, which the fourth takeover wraps and evicts. The vault has
stakes of 2 and 3 over a minimum of 2 and an `ACC` of 12, so that totals of 5 leave remainders,
`INDEX_MAX` is what all CLAIM makes of the index at the minimum stake, and five transactions
suffice for stake, silent transfer, stake, transfer, claim; with the 15 LP tokens there are
(`LP_SUPPLY`), one wei a transaction (`ROUNDING = 1`) holds there, which is tighter than what
is proved for any vault. The market has three locks, two
offers, three calls a block and two changes of router (away and back); the Furnace two
vaults and six ticks; the throne's mirror four calls. The keeper has two senders with two
failures to a trip, a week of two days of two ticks with one batch to spread, two sockets; two processes, a TTL of two
heartbeats, two crashes and a stall; three users, reigns and items. Three
owners for a limit of two; each has one, two or four locks with room for three in a run, so that
the first group may be too large, and a later one may not fit with a smaller one behind it. The
backoff ends at two turns of one item, so that the third item is beyond the reach of two that
revert (`Reach = 2 < ITEMS`). The clients
have three blocks with one reorganisation, two overlapping runs, two writes of two attempts,
two watchers over three blocks with a fork and a crash, every action of the executor with one
change and one failing node, and five configurations of the loop in seven situations. Every fault is
counted by a bound; `MaxX` constants are bounds, and stand in the guards. All
configurations set `CHECK_DEADLOCK FALSE` because clocks and bounds run out.

**Fairness.** The contracts and `AgentEvents` assume none: nobody is obliged to take the
throne or withdraw, and the contracts schedule nothing. Off the chain, fairness is that of
an event loop and of a clock. `KeeperLock`: each process takes its steps, a stalled one
resumes, time goes by (weak). `KeeperTx`: each send goes on, time goes by. `Settlement`: the
loop runs and a process manager restarts it (weak); time elapses (strong, since the loop
may be busy whenever it could). `KeeperDaemon`: loop and clock (weak).
`KeeperRewards`, `KeeperPoke`, `KeeperLocks`, `KeeperScan`, `AgentTx`: the steps of a task (weak). `KeeperMarket`:
each of the three tasks is begun again and again (strong, because they take turns on one
loop), its steps and the cancellations go on (weak). `AgentLoop`: the loop runs, the stream
delivers, time goes by (weak). No fairness is on faults, nodes, users or operators.
`ClientsGoOn` is stated for failures that end; see the last points of section 4.

## 4. Where text and code differ

Four runs show what the code does against what a comment or manual says.

* `king_auto_lock_pin`. `MineCore.sol` 133-135 and 1050-1051 say that an unusable selected
  lock falls back to the pinned lock. `_routeClaimToLock` resolves the selection *or* the
  pin: with an unusable selection each settlement mints another lock.
* `royalties_eviction`. `ShareholderRoyalties.sol` 174-180 and 1071-1074 say that the floor
  on eviction keeps what a delayed claim needs. The claim on a lock that ended at E needs the
  last checkpoint *before* E; the floor protects those *from* E on. What holds, and is
  proved, is `AccrualIsExact`.
* `agent_approvals`. The SDK's manual (441, 462) counts three lock actions as auto-approved.
  The executor blocks them unless the ve lock is approved, and `VeClaimNFT` refuses
  approvals, which the router does not need: the three are blocked for ever.
* `agent_resubmits`. `txManager.ts` 8 says that a write not mined in time is sent again at the
  same nonce. If its first copy is mined after the time-out, the second is refused as nonce too
  low, and the manager sends the write at the next nonce: it may be mined twice. What holds, and
  is proved, is `PlainWritesAreMinedOnce`, about writes that are not replaced (the default).
  `AgentExecutor` stands for the default too.

Smaller disagreements met while modelling. The models do what the code does, and no run is
spent on them:

* `MineCoreHelper.sol` 406-410 and 435-444 say that cutting an interval changes the emission by
  about one wei per division, within 2 in the tests. The rate is itself rounded and then
  multiplied by the length, so the drift grows with the seconds covered (dust at production
  rates). What holds, and is proved for both streams, is `EmissionIsExact`.
* Exact auto-approvals ignore what earlier actions of the plan consume (SDK manual, 453).
* A subgraph that starts late prices listings of locks it never saw at zero
  (`marketRouter.ts` 118-120), and its rolling 24 h LP totals are stale without events
  (`furnace.ts`, near 898).
* The preflight of `delistLock` blocks the rescue after a router replacement that
  `MarketRouter.sol` 490-507 allows; those of the `cancelExpired*` actions, and of sessions,
  are off by the one second in which the time is reached exactly.
* `executeAutoFurnace` asks for a quote that is not of the destination the contract will
  choose (`MarketRouter.sol` 1283-1305): one that outlives a new lock is not considered, and a
  node that fails while the destination is read or quoted (`executorImpl.ts` 3262-3268,
  3282-3293) leaves the quote of a new lock. It may then block an offer as "Quoted bonus below
  target" (3309) that the contract would execute.
* Executed transactions carry a hash, says the SDK's manual (478). A mined revert under a
  `TxManager` does not: `executorImpl.ts` 17 imports the `TxRevertedError` of `harness/tx.ts`,
  the manager throws its own class of that name (`txManager.ts` 71-79, 475), so the check in
  5351 misses it and 5367-5372 report an error without a hash. Neither does a write whose
  broadcast (452-453) or receipt poll (484-488) failed, nor, without a manager, one for which
  viem's `waitForTransactionReceipt` gave up (`harness/tx.ts` 73), although it may be mined
  later. `cancelBonusTargetEscrow` may submit a second transaction and lose the hash of the
  first.
* After maturity with a carry, `tick` of the Furnace re-opens a stream, and
  `setLpRewardsVault` reverts until it has run again.
* `retryPushShareholderEth` emits reign 0, which the subgraph books on reign 1; a genesis takeover
  leaves a phantom `missing-1` row there.
* The keeper's resetAfter default (120 s) is shorter than its longest cooldown (300 s), which
  is therefore never reached; a success does not shorten the cooldown.
* `checkpoint_before_expiry.ts` 374 sorts locks by expiry lest it starve "near-expiry users when
  maxUsers is low". The limit (391) is applied before owners in cooldown are taken out (424-427):
  who was served keeps the place until the lock expires, and with more owners in the window than
  `maxUsers` the later ones may never be checkpointed.
* `automax_bonus.ts` 677-679 says that an oversized group of locks "must not stall later owners".
  If it is the first one, 696-700 take a part of it and end the loop: the rest of its locks and
  all owners behind it wait for as long as it is the first. Eligibility is asked after that
  cut, so that groups without room are not taken when the others have nothing to claim
  (the model has no morning windows, which change who is grouped).
* The sweeps pass over reverting items by a growing backoff (`sweep_market.ts` 316), which is
  capped: items that keep reverting, as many as there are turns within the largest delay, starve
  those behind them.
* `tx.ts` 34-37: a payout out of bounds "MUST trip the circuit breaker". The violation is
  counted as a failure (781), and 823 at once records the success of the same transaction, which
  sets the count to zero: violations alone never add up to a trip, unless one is enough or that
  write fails.
* `poke.ts` 641-642 calls its pending cursor what a flush has "already drained". It is the amount seen
  *before* the flush, and idle runs (449) move it too: shares that grow by less than the delta a
  run, or not beyond what the last flush found, do not cause a poke by themselves.
* A moved settlement anchor (day or hour) is not followed by a schedule already pending: it goes on
  in whole periods from the old one until its file is lost or the period is shortened
  (`settlement.ts` 130, 218). `NoActiveWindowSkipped` is therefore about an anchor that stays.
* The agent reads `enableSafeMaintenance` and `veExtend*` but its policy never uses them. An
  action that always fails starves those behind it when `maxActionsPerTick` cuts the plan;
  cooldowns are lost on restart, and a failed snapshot read ends the agent.

## 5. What TLAPS proves

The theorems hold for every value of the constants that the named assumptions of the
modules allow: any sets of users, accounts, locks and senders, any prices, rates, amounts
and periods, any number of faults. Those assumptions are what the code's own constants and
checks give (a positive period, a floor not above its launch rate, a heartbeat shorter than
the TTL). Four theorems have hypotheses of their own, named below.

| Theorem | Statement |
|---|---|
| `EthIsBacked`, `ClaimIsBacked` | `EthBacked`, `ClaimBacked` |
| `AccrualExcludesPauses`, `WindowCorrect`, `GenesisFirst` | `AccrualCountsOpenTime`, `WindowIsRecentTakeovers`, `ThroneOpensAfterGenesis` |
| `MineCoreTypes`, `MineCoreRoutes` | type correctness; `Spec => LockSpec`: MineCore uses the route as the route's own specification does |
| `RouteSafety`, `DefaultRouteReuse` | `PinsAreRouteLocks`, `DefaultRouteReusesItsLock` |
| `LedgerRefinement` | `Spec => ImplementsThroneLedger`, for `Amounts = Nat` |
| `EmissionFollowsTheSchedule` | `EmissionIsExact` |
| `RoyaltiesPartitioned`, `RewardsAreCovered` | `BucketsPartitionBalance`, `IndexedCoversAccrual` |
| `WatermarkCovered`, `HistoryStaysInOrder`, `RewardsAreReconstructed` | `WatermarkCoversLocks`, `HistoryIsOrdered`, `AccrualIsExact` |
| `VaultCoversClaims`, `ExitsArePaid`, `HarvestCountsFees`, `ShownIsPaid` | `ClaimCovered`, `ExitsPaidOnTime`, `OnlyFeesCountAsFees`, `ClaimPaysWhatIsShown` |
| `StakersGetTheirDue` | `RewardsFollowStake`, if `ROUNDING * ACC >= 8 * (ACC + LP_SUPPLY)` |
| `TheBooksAreKept`, `FrozenLocksComeBack` | `BooksAreKept`, `ListedLocksComeBack` |
| `TheFurnaceIsBacked` | `FurnaceIsBacked` |
| `HostLockIsExclusive` | `HostLockExcludes` |
| `PokeCursorsAreSafe` | `RetiredReignsAreFlushed` |
| `CheckpointsComeInTime` | `CheckpointedBeforeExpiry` |
| `RoundsAreSound`, `StopsCostNoPlace` | `RewardTypeOK`, `StoppedKeepTheirPlace` |
| `SendsStop` | `StopHolds` |
| `WindowsAreNotSkipped` | `NoActiveWindowSkipped`, if `SameAnchor` |
| `ReportsAgreeWithTheChain`, `BlocksAreRefusals` | `ReportsAreTrue`, `BlockedMeansRefused` |
| `EventsAreFollowed` | `EventsAreHandledOnce`, if `ForksAreShallow` |
| `PlainWritesGoOnce` | `PlainWritesAreMinedOnce` |
| `TheLoopIsPatient` | `LoopIsPatient` |
| `SumSplits`, `SumChanges`, `SumIsLinear`, ... | what a sum over a finite set is after a change |

**MineCore.** The inductive invariant is `ReignInv /\ WindowInv /\ EthInv /\ ClaimInv`.
`AccrualCountsOpenTime` alone is not inductive: an unpause moves the cursor by
`now - pausedSince`, which needs that `pausedSince` is in the past, is 0 unless paused, and
is set whenever a reign is paused. `SlotsAge` shows that a takeover ages every slot of the
ring by one except the overwritten one. `EthInv` and `ClaimInv` pair each balance equation
with what keeps the subtraction of a share non-negative. Each invariant has one preservation
lemma per action that disturbs it and a frame lemma for the rest. `LedgerRefinement` has one
lemma per action: a takeover maps to the ledger's with the witnesses price, payer,
refund and mined amount. Its hypothesis lets the ledger's amounts be all naturals, where a
run enumerates a few.

**Emission.** For any schedule that falls from a launch rate to a floor, so for both streams,
`EmittedIsNear` compares the trapezoid rule and its rounded rates with the
exact integral of any interval, before, across or after the end of the decay: at most one wei
per second above it, at most one below. The exact integral is additive
(`IntegralIsAdditive`), but minted CLAIM is not, and a pause shifts the interval that is
settled to later and cheaper seconds (`LaterIsWorthLess`). The invariant `Settled` therefore
speaks of minted plus pending against what the open seconds were worth.

**Royalties.** In layers. Where the array and the wrapped ring keep their entries; how a
checkpoint that is appended, replaced or evicts carries the entries of one history into the
next, and what that does to the credit of one lock; the users' sums; the reachable states.
`HistoryInv` says that the history is ordered and ends where the indices stand; `AccrualInv`
that each lock's reconstructed credit is what it earned; `CoverInv` that the sum over users of
what is due, scaled, stays below what is set aside, since a flush rounds down once and
users' sums are linear in it (`SumIsLinear`). `WatermarkInv` adds that a mutator leaves other
users' locks alone and that the observation after it restores the cover.

**Staking vault.** `Covers` states `ClaimCovered` of any books and balance; each operator on
books has a lemma that keeps it; rounding to the index and back never gains. `ExitInv` holds
for each user that what was begun, weighted, is what is queued plus what was paid, which the
sweep keeps through swap-and-pop by an invariant of its own turn.

That rewards follow stakes (`StakersGetTheirDue`) is about the errors of a whole history. A user's
error (`Gap`), times `ACC`, is what is owed, less what it holds, less what the index gained since it
was last paid for, less its share of CLAIM the index has not seen. `FairInv` bounds it from both
sides by five units for each transaction counted; a unit is a wei of the pool and a part in
`ACC` of each LP token, which is what a raise of the index may leave behind. The clamp on credits
makes this subtle: a user may be denied what the pool is short of, so the invariant (`Within`) also
bounds the error plus `Slack`, by which all promises exceed the pool. `Queue` says that CLAIM
waits un-indexed only while nobody stakes, or is too little to move the index. The view `earned`
adds three units, which gives the eight of the hypothesis. That is satisfied for every vault by a
`ROUNDING` large enough: with the 10^18 of the code for `ACC`, eight wei a transaction and eight
more for each whole LP token there is.

**Market.** `MarketInv` is the typing with `LocksInv`, `ListingsInv`, `ListPlaces` and
`OffersInv`. `Places` says of an array and its index that each item is where the index says,
once; removing by swapping the last in keeps it. The escrow is a sum over offers, changed
one at a time (`SumChanges`). That a frozen lock comes back needs that the ve contract's
listed flag and the router's record disagree only after a change of router, and that
a lock listed at a foreign router is released by `delistLock` without a record.

**Furnace.** `Kept(x, loose)` says of the contract in the middle of a transaction that its
balance is reserve plus liability plus `loose`, CLAIM that has no name yet. Every internal
function has a lemma on how it moves `loose`; a transaction begins and ends with 0.

**Keeper.** `HostInv`: the socket has at most one owner, whoever is past opening the
file has it, and a record with another's name belongs to nobody alive. `CursorInv`: what a
run carries between its awaits is still at most what was flushed. `CheckpointInv`: nobody is in
cooldown who has not been checkpointed, so each run in which an owner had a place took that owner along,
and has failed or is the one under way (`APlaceIsTaken`); the runs are no more than the faults, then,
once the lock has expired.
A stop re-queues whom it cut off: the k-th of those it keeps is the one with k of them up to it,
which makes the filter a sequence that loses and repeats none (`RanksGrow`, `ThoseAreThose`); so nobody is in it twice, nobody is
lost, and those who wait keep their places in front (`ReDeferQueues`, `QueueKeepsPlaces`).
`StopInv`, `StreakInv`: what was submitted since the keeper must stop plus what still may
be is no more than the sends; and the breaker's counter is no less than the failures in a row
unless it has tripped. `WindowsInv`: the schedule in memory and the one in the file are the same
but for a re-anchoring that brings no window later, and each is *sound*: anchors that lie before
its next window are over. Moving on by whole periods and shortening the period keep the anchors,
which is arithmetic modulo a period. The theorem's hypothesis, that day and hour stay, is needed:
see the end of section 4.

**Agent.** `ReportsInv`: of an action's at most two transactions only one can take effect,
because the first that does closes the offer and nothing closed opens again. That a block is a
refusal is proved question by question: each is a requirement of the contract on the same fact,
a rule of the executor's own, or, for the facts made of others, equal to the contract's outside
of `Differs`. `OnceInv`: a write has no transaction before it waits for one, all it has then carry
its nonce, and a nonce is used once. `StreamInv`: what was handled is in the cursor or its file unless excused; no
checkpoint is further than the chain was before its reorganisations, and none further past an
unhandled event than a start takes it back. The hypothesis `ForksAreShallow`, that all
reorganisations together are no deeper than two rewinds, is needed: a cursor goes back once per
start, so deeper ones can put the first unhandled event before it. `LoopInv`: the cooldown left
is no shorter than what must go by, because the controller's count of errors is never below the
failures in a row that are recent enough; what is unread has a signal pending or a tick ahead;
and a plan holds one takeover at most, as its last action, admitted only after the cooldown. A
single timeout starts the rest only where `MAXTIMEOUTS = 1` (the default) and a `TxManager`
reports it, for `classifyViemError` knows no other time-out; the count of errors does in every
case.

**Sums.** `MapThenSumSet` chooses an order. That its value does not depend on it is proved
without induction, from a smallest set for which it does (`SumSplits`); all facts on totals
follow from there.

**Only model-checked.** `ThroneNeverBricked` (it is about `ENABLED`). All liveness:
`KeeperGoesOn`, `WorkIsSeen`, `SplitBrainHeals`, `NobodyIsLeftOut`, `NothingStaysMissed`,
`ClientsGoOn`. `MirrorsTheExchange` and `MirrorsThroneAndYields`: the
handlers are folds over the events of a block, that is, recursion over data. That the tight
bound `ROUNDING = 1` of the run of `RewardsFollowStake` suffices there. The proof modules use no `RECURSIVE` operator.

## 6. Not modelled, and plan

Not modelled: the genesis contracts (MineCore's side of genesis is), `ClaimToken` and the
adapters (balance changes where they are used), lenses, quoters and proxies, owner wiring,
configuration parsing, alerts and status files, deployment scripts, and the SDK's readers,
planner files and harness, which decide nothing that is written to the chain.
`DelegationHub` is a fixed set of sessions; granting and revoking one is modelled in
`SubgraphThrone`, its end in `AgentLoop`.

Next, in this order:

1. A bound for `StakersGetTheirDue` that counts roundings per change of the stake.
2. `VeCheckpoint`: scheduled slope changes and bounded catch-up; global sums against the live
   locks of `VeLocks`, which gives `Drifts` and `Freshness` their real values.
3. `AutoCompound` of the royalties, and `Genesis` composed with `MineCore`.
