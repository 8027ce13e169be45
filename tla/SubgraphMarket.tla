--------------------------- MODULE SubgraphMarket ---------------------------
(***************************************************************************)
(* The mirror of locks and market that the subgraph keeps: the handlers of *)
(* veClaimNFT.ts and marketRouter.ts, and what furnace.ts does to a lock   *)
(* that is sold, run over the events of a block in their order.  A call of *)
(* a handler to a contract sees the state at the end of the block.  An     *)
(* indexer may start late, when locks exist already.  Event rows, activity *)
(* items and pricing snapshots are left out.                               *)
(***************************************************************************)
EXTENDS MarketRouter

CONSTANTS LateStarts      \* whether the indexer starts after the locks

ASSUME SubgraphAssumption == LateStarts \subseteq BOOLEAN

VARIABLES
  late,
  store     \* [lock, locked, ve, listing, offer, paused, keepers, budget]: VeLock, two
            \* fields of User, MarketListing, BonusTargetEscrow, the paused flag of Protocol,
            \* MarketSettlementKeeper and MarketRouterParams

subgraphVars == <<marketVars, late, store>>

BPS == 10000
UNKNOWN == -1
Accounts == Users \cup {FURNACE, NoOne}

NoVeLock == [known |-> FALSE, owner |-> NoOne, amount |-> 0, end |-> 0, auto |-> FALSE,
             listed |-> FALSE, ve |-> 0]
NoMarketListing == [known |-> FALSE, seller |-> NoOne, minOut |-> 0, price |-> 0, expires |-> 0,
                    active |-> FALSE]
NoEscrow == [known |-> FALSE, buyer |-> NoOne, funds |-> 0, expires |-> 0, dest |-> NoOne,
             active |-> FALSE]
EmptyStore ==
  [lock |-> [t \in Locks |-> NoVeLock], locked |-> [u \in Accounts |-> 0],
   ve |-> [u \in Accounts |-> 0], listing |-> [t \in Locks |-> NoMarketListing],
   offer |-> [o \in Offers |-> NoEscrow], paused |-> FALSE, keepers |-> {}, budget |-> UNKNOWN]

-----------------------------------------------------------------------------
(* currentVeWei, and the clamped subtraction of the aggregates.            *)
Ve(l) == IF l.auto THEN l.amount
         ELSE IF l.end <= now THEN 0 ELSE (l.amount * (l.end - now)) \div MAXLOCK
Less(x, y) == IF x >= y THEN x - y ELSE 0
Snapshot(l) == [l EXCEPT !.ve = Ve(l)]

LockOf(s, t, u) ==                        \* loadOrCreateVeLock
  IF s.lock[t].known THEN s.lock[t] ELSE [NoVeLock EXCEPT !.known = TRUE, !.owner = u]
ListingOf(s, t, u) ==                     \* loadOrCreateListing
  IF s.listing[t].known THEN s.listing[t] ELSE [NoMarketListing EXCEPT !.known = TRUE, !.seller = u]
OfferOf(s, o, u) ==                       \* loadOrCreateOffer
  IF s.offer[o].known THEN s.offer[o] ELSE [NoEscrow EXCEPT !.known = TRUE, !.buyer = u]

PutLock(s, t, l) == [s EXCEPT !.lock[t] = l]
replaceUserVeContribution(s, u, old, new) ==
  [s EXCEPT !.ve[u] = IF new >= old THEN @ + (new - old) ELSE Less(@, old - new)]
Deactivated(s, t) ==                      \* a listed lock that goes takes its listing with it
  IF s.lock[t].listed /\ s.listing[t].known THEN [s EXCEPT !.listing[t].active = FALSE] ELSE s
BurnedLock(l) ==
  [l EXCEPT !.owner = NoOne, !.listed = FALSE,
            !.end = IF l.amount = 0 THEN 0 ELSE @, !.auto = IF l.amount = 0 THEN FALSE ELSE @]

(* Handlers of VeClaimNFT.                                                 *)
handleLockCreated(s, e) ==
  LET l == Snapshot([NoVeLock EXCEPT !.known = TRUE, !.owner = e.u, !.amount = e.a,
                                     !.end = e.e, !.auto = e.auto])
  IN replaceUserVeContribution([PutLock(s, e.t, l) EXCEPT !.locked[e.u] = @ + e.a], e.u, 0, l.ve)

handleLockExtended(s, e) ==
  LET l == LockOf(s, e.t, e.u)
      n == Snapshot([l EXCEPT !.owner = e.u, !.end = e.e])
  IN replaceUserVeContribution(PutLock(s, e.t, n), e.u, l.ve, n.ve)

handleLockAmountIncreased(s, e) ==
  LET l == LockOf(s, e.t, e.u)
      n == Snapshot([l EXCEPT !.owner = e.u, !.amount = @ + e.a])
  IN replaceUserVeContribution([PutLock(s, e.t, n) EXCEPT !.locked[e.u] = @ + e.a], e.u, l.ve, n.ve)

handleLockMerged(s, e) ==
  LET f    == LockOf(s, e.f, e.u)
      i    == LockOf(s, e.t, e.u)
      left == [f EXCEPT !.amount = Less(@, e.a)]
      auto == i.auto \/ f.auto
      into == Snapshot([i EXCEPT !.owner = e.u, !.amount = @ + e.a, !.auto = auto,
                !.end = IF auto THEN now + MAXLOCK ELSE IF f.end > @ THEN f.end ELSE @])
      from == [BurnedLock(left) EXCEPT !.ve = Ve(left)]
  IN replaceUserVeContribution(PutLock(PutLock(Deactivated(s, e.f), e.f, from), e.t, into),
                               e.u, f.ve + i.ve, from.ve + into.ve)

handleLockUnlocked(s, e) ==
  LET l == LockOf(s, e.t, e.u)
      n == Snapshot(BurnedLock([l EXCEPT !.amount = Less(@, e.a)]))
  IN replaceUserVeContribution(
       [PutLock(Deactivated(s, e.t), e.t, n) EXCEPT !.locked[e.u] = Less(@, e.a)], e.u, l.ve, n.ve)

handleAutoMaxSet(s, e) ==
  LET l == LockOf(s, e.t, e.u)
      n == Snapshot([l EXCEPT !.auto = e.on, !.end = now + MAXLOCK])
  IN replaceUserVeContribution(PutLock(s, e.t, n), e.u, l.ve, n.ve)

(* A mint is LockCreated's, a user's burn LockUnlocked's or LockMerged's;  *)
(* only a burn by the Furnace is handled here.                             *)
BurnsAreHandledMutant(e) == TRUE
BurnIsHandled(e) == e.from = FURNACE
handleBurn(s, e) ==
  LET l == LockOf(s, e.t, e.from) IN
  IF ~BurnIsHandled(e) \/ l.owner = NoOne \/ l.amount = 0 THEN s
  ELSE replaceUserVeContribution(
         [PutLock(s, e.t, [l EXCEPT !.owner = NoOne, !.amount = 0, !.listed = FALSE, !.ve = 0])
            EXCEPT !.locked[e.from] = Less(@, l.amount)], e.from, l.ve, 0)
handleTransfer(s, e) ==
  IF e.to = NoOne THEN handleBurn(s, e)
  ELSE LET l == LockOf(s, e.t, e.from)
           n == Snapshot([l EXCEPT !.owner = e.to, !.listed = FALSE])
           moved == [PutLock(Deactivated(s, e.t), e.t, n) EXCEPT
                       !.locked[e.from] = Less(@, l.amount), !.locked[e.to] = @ + l.amount]
       IN replaceUserVeContribution(replaceUserVeContribution(moved, e.from, l.ve, 0), e.to, 0, n.ve)

(* The Furnace's event of a sale comes between custody and burn, and takes *)
(* the lock from the Furnace's totals unless the burn has done so.         *)
NotYetBurned(l) == ~(l.amount = 0 /\ l.owner = NoOne)
handleLockSold(s, e) ==
  LET l == s.lock[e.t] IN
  IF ~l.known \/ ~NotYetBurned(l) THEN s
  ELSE [PutLock(s, e.t, [l EXCEPT !.owner = NoOne, !.amount = 0, !.listed = FALSE, !.ve = 0]) EXCEPT
          !.locked[FURNACE] = Less(@, l.amount), !.ve[FURNACE] = Less(@, l.ve)]

-----------------------------------------------------------------------------
(* Handlers of MarketRouter.  An unknown lock is read from the contract.   *)
hydrateVeLockIfNeeded(l, t) ==
  IF l.amount # 0 \/ l.end # 0 THEN l
  ELSE Snapshot([l EXCEPT !.amount = lock[t].amount, !.end = EndOf(t), !.auto = lock[t].auto])
computeListingPriceBps(minOut, amount) ==
  IF amount = 0 THEN 0 ELSE (minOut * BPS) \div amount

handleLockListed(s, e) ==
  LET l == hydrateVeLockIfNeeded(LockOf(s, e.t, e.u), e.t) IN
  [PutLock(s, e.t, [l EXCEPT !.listed = TRUE]) EXCEPT
     !.listing[e.t] = [known |-> TRUE, seller |-> e.u, minOut |-> e.p, expires |-> e.e,
                       price |-> computeListingPriceBps(e.p, l.amount), active |-> TRUE]]

handleLockDelisted(s, e) ==
  [PutLock(s, e.t, [LockOf(s, e.t, e.u) EXCEPT !.listed = FALSE]) EXCEPT
     !.listing[e.t] = [ListingOf(s, e.t, e.u) EXCEPT !.active = FALSE]]
handleListingSettled(s, e) == handleLockDelisted(s, e)
handleMarketSellToFurnace(s, e) ==
  [PutLock(s, e.t, [LockOf(s, e.t, e.u) EXCEPT !.listed = FALSE]) EXCEPT
     !.listing[e.t].active = FALSE]

handleBonusTargetEscrowCreated(s, e) ==
  [s EXCEPT !.offer[e.o] = [known |-> TRUE, buyer |-> e.u, funds |-> e.b, expires |-> e.e,
                            dest |-> e.dest, active |-> TRUE]]
handleBonusTargetEscrowConfigured(s, e) ==
  [s EXCEPT !.offer[e.o] = [OfferOf(s, e.o, e.u) EXCEPT !.buyer = e.u]]
ClosedEscrow(s, e) ==
  [s EXCEPT !.offer[e.o] = [OfferOf(s, e.o, e.u) EXCEPT !.active = FALSE, !.funds = 0]]
handleBonusTargetEscrowExpired(s, e)   == ClosedEscrow(s, e)
handleBonusTargetEscrowCancelled(s, e) == [ClosedEscrow(s, e) EXCEPT !.offer[e.o].buyer = e.u]
handleBonusTargetEscrowExpiryExtended(s, e) ==
  [s EXCEPT !.offer[e.o] = [OfferOf(s, e.o, e.u) EXCEPT !.active = e.e > now, !.expires = e.e]]
handleBonusTargetEscrowExecuted(s, e) ==
  LET c == ClosedEscrow(s, e) IN
  IF e.route = NoOne THEN c
  ELSE [c EXCEPT !.listing[e.route].active = FALSE, !.lock[e.route].listed = FALSE]

(* Every event of the router but these leaves the parameters alone, once   *)
(* they are known.                                                         *)
maybeSnapshotMarketRouterParams(s) ==
  IF s.budget = UNKNOWN THEN [s EXCEPT !.budget = minBudget] ELSE s
handleTradingPausedChanged(s, e) == [s EXCEPT !.paused = e.on]
handleSettlementKeeperSet(s, e) ==
  [s EXCEPT !.keepers = IF e.on THEN @ \cup {e.u} ELSE @ \ {e.u}]
handleBonusTargetEscrowParamsChanged(s, e) == [s EXCEPT !.budget = e.b]

HandleVe(s, e) ==
  CASE e.k = "LockCreated"         -> handleLockCreated(s, e)
    [] e.k = "LockExtended"        -> handleLockExtended(s, e)
    [] e.k = "LockAmountIncreased" -> handleLockAmountIncreased(s, e)
    [] e.k = "LockMerged"          -> handleLockMerged(s, e)
    [] e.k = "LockUnlocked"        -> handleLockUnlocked(s, e)
    [] e.k = "AutoMaxSet"          -> handleAutoMaxSet(s, e)
    [] e.k = "Transfer"            -> handleTransfer(s, e)
    [] e.k = "LockSoldToFurnace"   -> handleLockSold(s, e)

HandleRouter(s, e) ==
  CASE e.k = "LockListed"          -> handleLockListed(s, e)
    [] e.k = "LockDelisted"        -> handleLockDelisted(s, e)
    [] e.k = "ListingSettled"      -> handleListingSettled(s, e)
    [] e.k = "MarketSellToFurnace" -> handleMarketSellToFurnace(s, e)
    [] e.k = "EscrowCreated"       -> handleBonusTargetEscrowCreated(s, e)
    [] e.k = "EscrowConfigured"    -> handleBonusTargetEscrowConfigured(s, e)
    [] e.k = "EscrowExpired"       -> handleBonusTargetEscrowExpired(s, e)
    [] e.k = "EscrowCancelled"     -> handleBonusTargetEscrowCancelled(s, e)
    [] e.k = "EscrowExtended"      -> handleBonusTargetEscrowExpiryExtended(s, e)
    [] e.k = "EscrowExecuted"      -> handleBonusTargetEscrowExecuted(s, e)
    [] e.k = "TradingPausedChanged" -> handleTradingPausedChanged(s, e)
    [] e.k = "SettlementKeeperSet" -> handleSettlementKeeperSet(s, e)
    [] e.k = "ParamsChanged"       -> handleBonusTargetEscrowParamsChanged(s, e)

VeEvents == {"LockCreated", "LockExtended", "LockAmountIncreased", "LockMerged", "LockUnlocked",
             "AutoMaxSet", "Transfer", "LockSoldToFurnace"}
Handle(s, e) ==
  IF e.k \in VeEvents THEN HandleVe(s, e) ELSE HandleRouter(maybeSnapshotMarketRouterParams(s), e)
IndexBlock == store' = FoldLeft(Handle, store, emitted)

MirrorInit == late \in LateStarts /\ store = EmptyStore
MirrorNext ==
  /\ \/ Tick /\ IndexBlock
     \/ MarketNext /\ now' = now /\ UNCHANGED store
  /\ UNCHANGED late

-----------------------------------------------------------------------------
(* type invariant *)
StoreTypeOK ==
  /\ late \in BOOLEAN
  /\ \A t \in Locks : store.lock[t].owner \in Accounts /\ store.lock[t].amount \in Nat
  /\ \A u \in Accounts : store.locked[u] \in Nat /\ store.ve[u] \in Nat

AtBlockEnd == emitted = <<>>

(* After a block the mirror says of every lock, listing and offer what the *)
(* contracts say, whatever calls of different users met in the block; a    *)
(* sale passes through five handlers of two files without a trace left.    *)
SameLock(t) ==
  /\ store.lock[t].owner = lock[t].owner /\ store.lock[t].amount = lock[t].amount
  /\ store.lock[t].auto = lock[t].auto /\ store.lock[t].listed = lock[t].listed
  /\ ~lock[t].auto => store.lock[t].end = lock[t].end
SameListing(t) ==
  /\ store.listing[t].active = listing[t].active
  /\ listing[t].active => /\ store.listing[t].seller = listing[t].seller
                          /\ store.listing[t].minOut = listing[t].minOut
                          /\ store.listing[t].expires = listing[t].expires
SameOffer(o) ==
  /\ store.offer[o].active = offer[o].active /\ store.offer[o].funds = offer[o].funds
  /\ offer[o].active => /\ store.offer[o].buyer = offer[o].buyer
                        /\ store.offer[o].expires = offer[o].expires

(* Each account's totals are the sums over the locks it has in the mirror: *)
(* no handler counts a lock twice or forgets one, for users and Furnace.   *)
SumOver(f(_), u) ==
  FoldLeft(LAMBDA sum, t : sum + IF store.lock[t].owner = u THEN f(store.lock[t]) ELSE 0,
           0, SetToSeq(Locks))
TotalsAddUp ==
  \A u \in Accounts : /\ store.locked[u] = SumOver(LAMBDA l : l.amount, u)
                      /\ store.ve[u] = SumOver(LAMBDA l : l.ve, u)

SameSettings ==
  /\ store.paused = paused /\ store.keepers = keepers /\ store.budget \in {UNKNOWN, minBudget}

MirrorsTheMarket ==
  (AtBlockEnd /\ ~late /\ rewires = 0) =>
    /\ \A t \in Locks : SameLock(t) /\ SameListing(t)
    /\ \A o \in Offers : SameOffer(o)
    /\ TotalsAddUp /\ SameSettings

(* An indexer that starts late reads a lock it does not know, so that the  *)
(* price of its listing is computed correctly (marketRouter.ts:118-120).   *)
PricesAreRight ==
  (AtBlockEnd /\ rewires = 0) =>
    \A t \in Locks : store.listing[t].active /\ listing[t].active =>
      store.listing[t].price = (listing[t].minOut * BPS) \div lock[t].amount
=============================================================================
