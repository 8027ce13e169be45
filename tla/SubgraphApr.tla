----------------------------- MODULE SubgraphApr -----------------------------
(***************************************************************************)
(* The yields the subgraph shows: of the LP vault and of ve locks, each    *)
(* over the full hours of a rolling day.  Whatever changes a flow or a     *)
(* stock touches the bucket of its hour, after the prices were read again, *)
(* and both yields are then reckoned from the buckets.  Nothing is         *)
(* reckoned between two touches.                                           *)
(***************************************************************************)
EXTENDS Integers, Sequences, FiniteSets, FiniteSetsExt, SequencesExt

CONSTANTS
  AprHours,     \* HOURS_PER_DAY
  ANNUAL,       \* BPS_ANNUALIZATION
  AprHorizon,   \* hours
  MaxFlows,     \* events
  Flows, Stocks, Prices

ASSUME SubgraphAprAssumption ==
  /\ AprHours \in Nat \ {0} /\ ANNUAL \in Nat \ {0} /\ AprHorizon \in Nat /\ MaxFlows \in Nat
  /\ Flows \subseteq Nat /\ Stocks \subseteq Nat /\ Prices \subseteq Nat \ {0}

Unknown == -1                \* null

VARIABLES
  hour,
  source,   \* on the chain: [staked, locked, price, fresh]
  wired,    \* Protocol: [claim, ve], the addresses that are known
  pricing,  \* TokenPricingSnapshot: [locked, claimUsd]; ethUsd is 1 or null
  bucket,   \* LpAprHourlyBucket: [lp, eth, tvl] of an hour
  apr,      \* AprSnapshot: [lp, ve, at]
  flows     \* history: what touched a bucket

aprVars == <<hour, source, wired, pricing, bucket, apr, flows>>

NoPricing == [locked |-> Unknown, claimUsd |-> Unknown]
FirstApr(p) ==
  /\ hour = AprHours
  /\ source = [staked |-> Min(Stocks), locked |-> 0, price |-> p, fresh |-> TRUE]
  /\ wired = [claim |-> FALSE, ve |-> FALSE]
  /\ pricing = NoPricing /\ bucket = [h \in {} |-> [lp |-> 0, eth |-> 0, tvl |-> Unknown]]
  /\ apr = [lp |-> Unknown, ve |-> Unknown, at |-> Unknown] /\ flows = <<>>
SubgraphAprInit == \E p \in Prices : FirstApr(p)

-----------------------------------------------------------------------------
(* The prices: supply is always there, the rest is null together when the  *)
(* feed is stale.                                                          *)
refreshTokenPricingSnapshot(s) ==
  IF ~wired.claim THEN pricing
  ELSE [locked |-> s.locked, claimUsd |-> IF s.fresh THEN s.price ELSE Unknown]

loadOrCreateBucket == IF hour \in DOMAIN bucket THEN bucket[hour] ELSE [lp |-> 0, eth |-> 0, tvl |-> Unknown]
InWindow(h) == {h - i : i \in 1..AprHours}
\* mutant: the running hour is counted in
RunningHourMutant(b, h) ==
  LET hs == {h - i : i \in 0..AprHours - 1} \cap DOMAIN b IN
  [lp  |-> MapThenSumSet(LAMBDA x : b[x].lp, hs),
   eth |-> MapThenSumSet(LAMBDA x : b[x].eth, hs)]
sumFlowOverLast24h(b, h) ==
  LET hs == InWindow(h) \cap DOMAIN b IN
  [lp  |-> MapThenSumSet(LAMBDA x : b[x].lp, hs),
   eth |-> MapThenSumSet(LAMBDA x : b[x].eth, hs)]
\* mutant: hours that have no value count as none
EveryHourMutant(b, h) ==
  LET hs == InWindow(h) \cap DOMAIN b IN
  [sum |-> MapThenSumSet(LAMBDA x : IF b[x].tvl = Unknown THEN 0 ELSE b[x].tvl, hs), n |-> Cardinality(hs)]
averageLpTvlOverLast24h(b, h) ==           \* as a sum over a count
  LET hs == {x \in InWindow(h) \cap DOMAIN b : b[x].tvl # Unknown} IN
  [sum |-> MapThenSumSet(LAMBDA x : b[x].tvl, hs), n |-> Cardinality(hs)]

refreshAprSnapshot(b, p) ==
  LET flow == sumFlowOverLast24h(b, hour)
      avg  == averageLpTvlOverLast24h(b, hour)
      known == p.claimUsd # Unknown
  IN IF p = NoPricing THEN apr
     ELSE [lp |-> IF known /\ avg.n > 0 /\ avg.sum > 0
                  THEN (ANNUAL * flow.lp * p.claimUsd * avg.n) \div avg.sum ELSE Unknown,
           ve |-> IF known /\ p.locked > 0
                  THEN (ANNUAL * flow.eth) \div (p.locked * p.claimUsd) ELSE Unknown,
           at |-> hour]

(* A touch of the bucket of the hour, by an event of the vault (which      *)
(* looks at the pool, too) or by an allocation or a lock.                  *)
Recorded(kind, a, s) == flows' = Append(flows, [h |-> hour, k |-> kind, a |-> a, s |-> s, known |-> wired.claim])
snapshotLpTvlUsd(s, p) == s.staked * p.claimUsd
recordLpEventForApr(a, p, s) ==
  LET b == [loadOrCreateBucket EXCEPT
              !.lp = @ + a, !.tvl = IF p.claimUsd # Unknown THEN snapshotLpTvlUsd(s, p) ELSE @]
      all == [x \in DOMAIN bucket \cup {hour} |-> IF x = hour THEN b ELSE bucket[x]]
  IN IF ~wired.claim THEN UNCHANGED <<bucket, apr>>
     ELSE bucket' = all /\ apr' = refreshAprSnapshot(all, p)
touchVeStockBucket(a, p) ==
  LET b == [loadOrCreateBucket EXCEPT !.eth = @ + a]
      all == [x \in DOMAIN bucket \cup {hour} |-> IF x = hour THEN b ELSE bucket[x]]
  IN IF ~wired.claim THEN UNCHANGED <<bucket, apr>>
     ELSE bucket' = all /\ apr' = refreshAprSnapshot(all, p)

(* The prices are read again where the ve contract is known.               *)
RefreshIfVe(s) == IF wired.ve THEN refreshTokenPricingSnapshot(s) ELSE pricing

handleLpRewardsNotified ==
  \E a \in Flows :
    /\ pricing' = RefreshIfVe(source) /\ recordLpEventForApr(a, pricing', source)
    /\ Recorded("lp", a, source) /\ UNCHANGED <<hour, source, wired>>
refreshLpTvlAfterStakeChange ==
  \E v \in Stocks \ {source.staked} : \E s \in {[source EXCEPT !.staked = v]} :
    /\ source' = s /\ pricing' = RefreshIfVe(s) /\ recordLpEventForApr(0, pricing', s)
    /\ Recorded("lp", 0, s) /\ UNCHANGED <<hour, wired>>
recordShareholderEthForApr ==
  \E a \in Flows :
    /\ pricing' = RefreshIfVe(source) /\ touchVeStockBucket(a, pricing')
    /\ Recorded("eth", a, source) /\ UNCHANGED <<hour, source, wired>>
refreshAprAfterLockChange ==
  \E v \in Stocks \ {source.locked} : \E s \in {[source EXCEPT !.locked = v]} :
    /\ source' = s /\ wired' = [wired EXCEPT !.ve = TRUE]
    /\ pricing' = refreshTokenPricingSnapshot(s) /\ touchVeStockBucket(0, pricing')
    /\ Recorded("eth", 0, s) /\ UNCHANGED hour

(* The registry is bound to the Furnace: the token and the pool are known. *)
handleRouterConfigSet ==
  /\ ~wired.claim /\ wired' = [wired EXCEPT !.claim = TRUE]
  /\ UNCHANGED <<hour, source, pricing, bucket, apr, flows>>

(* Hours pass; the price moves, and the feed goes stale and comes back.    *)
HourPasses ==
  /\ hour < AprHorizon /\ hour' = hour + 1
  /\ \E p \in Prices, f \in BOOLEAN : source' = [source EXCEPT !.price = p, !.fresh = f]
  /\ UNCHANGED <<wired, pricing, bucket, apr, flows>>

SubgraphAprNext ==
  \/ Len(flows) < MaxFlows
     /\ (handleLpRewardsNotified \/ refreshLpTvlAfterStakeChange
         \/ recordShareholderEthForApr \/ refreshAprAfterLockChange)
  \/ handleRouterConfigSet \/ HourPasses

SubgraphAprSpec == SubgraphAprInit /\ [][SubgraphAprNext]_aprVars

-----------------------------------------------------------------------------
(* type invariant *)
AprTypeOK ==
  /\ hour \in AprHours..AprHorizon /\ wired \in [claim : BOOLEAN, ve : BOOLEAN]
  /\ DOMAIN bucket \subseteq AprHours..AprHorizon /\ Len(flows) <= MaxFlows
  /\ apr.lp >= Unknown /\ apr.ve >= Unknown

Touches == {i \in DOMAIN flows : flows[i].known}
InDay(i, h) == flows[i].h < h /\ flows[i].h >= h - AprHours
FlowOf(k, h) == MapThenSumSet(LAMBDA i : flows[i].a, {i \in Touches : flows[i].k = k /\ InDay(i, h)})
VeKnownAt(i) == \E j \in 1..i : flows[j].k = "eth" /\ flows[j].a = 0
Valued(i) == flows[i].k = "lp" /\ flows[i].s.fresh /\ VeKnownAt(i)
LastValued(h) == {i \in Touches : Valued(i) /\ InDay(i, h)
                    /\ \A j \in Touches : (Valued(j) /\ flows[j].h = flows[i].h) => j <= i}

(* Nothing is shown before a price was ever read, for which the ve         *)
(* contract must be known.  What is shown then is the yield of the full    *)
(* hours before the last touch: the flows that came once the token was     *)
(* known, to the hour; for the vault against the mean, over the hours that *)
(* have one, of the last stake that could be valued; for locks against     *)
(* what is locked now.                                                     *)
AprIsOfItsWindow ==
  Touches # {} =>
    LET n == Max(Touches)
        e == flows[n]
        hs == LastValued(e.h)
        tvl == MapThenSumSet(LAMBDA i : flows[i].s.staked * flows[i].s.price, hs)
        priced == e.s.fresh
    IN apr = IF ~VeKnownAt(n) THEN [lp |-> Unknown, ve |-> Unknown, at |-> Unknown]
             ELSE [lp |-> IF priced /\ tvl > 0
                          THEN (ANNUAL * FlowOf("lp", e.h) * e.s.price * Cardinality(hs)) \div tvl ELSE Unknown,
                   ve |-> IF priced /\ e.s.locked > 0
                          THEN (ANNUAL * FlowOf("eth", e.h)) \div (e.s.locked * e.s.price) ELSE Unknown,
                   at |-> e.h]
=============================================================================
