--------------------------- MODULE SubgraphFurnace ---------------------------
(***************************************************************************)
(* What furnace.ts keeps of the Furnace: its state, daily totals, hourly   *)
(* LP rewards, and the samples and ranges of the quoted bonus.  Handlers   *)
(* run over the events of a block in their order and read the quoter at    *)
(* the end of the block; then the block handler runs.  The quote stands    *)
(* for what the quoter makes of the reserve.  The rows of the events, the  *)
(* activity feed, the spot rates and the decoding of entries are left out. *)
(***************************************************************************)
EXTENDS Furnace, FiniteSetsExt

CONSTANTS
  BUCKET, HOUR,       \* BUCKET_5M and BUCKET_1H
  DAYHOURS,           \* the hours of the rolling window (24)
  WEEK, MONTH         \* 7 and 30 days

ASSUME SubgraphFurnaceAssumption == {BUCKET, HOUR, DAYHOURS, WEEK, MONTH} \subseteq Nat \ {0}

VARIABLE mirror   \* FurnaceState, DailyFurnaceAgg, LpRewardsSample, FurnaceBonusSample,
                  \* FurnaceBonusSnapshot, PendingBonusPaid and Protocol.lpStakingVault

mirrorVars == <<furnaceVars, mirror>>

SENTINEL == 100000
NoMap == [x \in {} |-> 0]
NewDay == [end |-> 0, user |-> 0, lp |-> 0, least |-> SENTINEL, most |-> 0]
NoRange == [least |-> 0, most |-> 0]
EmptyMirror ==
  [reserve |-> 0, rate |-> 0, finish |-> 0, lp24 |-> 0, lp24At |-> 0,
   day |-> NoMap, lpHour |-> NoMap, sample |-> NoMap, hourSeen |-> {}, pending |-> <<>>,
   vault |-> NoVault, at |-> 0, quote |-> 0, day24 |-> NoRange, recomputed |-> 0,
   lastDay |-> 0, week |-> NoRange, month |-> NoRange]

Quote(reserve) == reserve                       \* user bonus the quoter offers
bucketStart(size) == clock - (clock % size)
Put(map, x, v) == [y \in DOMAIN map \cup {x} |-> IF y = x THEN v ELSE map[y]]
Without(map, gone) == [y \in DOMAIN map \ gone |-> map[y]]
dayIdI32 == clock \div DAY

DayOf(m) == IF dayIdI32 \in DOMAIN m.day THEN m.day[dayIdI32] ELSE NewDay      \* loadOrCreateDay
PutDay(m, d) == [m EXCEPT !.day = Put(@, dayIdI32, d)]

-----------------------------------------------------------------------------
(* Samples and ranges of the quote.                                        *)
WINDOW24 == DAYHOURS * HOUR
maybeCreateBonusSample5m(m, q) ==
  LET b == bucketStart(BUCKET) IN
  IF b \in DOMAIN m.sample THEN m
  ELSE [m EXCEPT !.sample =
          Without(Put(@, b, q), {b - (WINDOW24 + BUCKET * j) : j \in 1..5})]
maybeCreateBonusSample1h(m) == [m EXCEPT !.hourSeen = {bucketStart(HOUR)}]

updateDailyBonusQuoteMinMax(m, q, end) ==
  LET d == DayOf(m) IN
  PutDay(m, [d EXCEPT !.end = IF @ = 0 THEN end ELSE @,
                      !.least = Smaller(@, q), !.most = IF q > @ THEN q ELSE @])

Widened(r, q) == [least |-> Smaller(r.least, q), most |-> IF q > r.most THEN q ELSE r.most]
RangeOf(S, T) == [least |-> Min(S), most |-> Max(T)]
OneDayTooManyMutant(m, n, q) ==
  LET days == {i \in DOMAIN m.day : i <= dayIdI32 /\ i >= dayIdI32 - n /\ m.day[i].least < SENTINEL} IN
  RangeOf({q} \cup {m.day[i].least : i \in days}, {q} \cup {m.day[i].most : i \in days})
OverDays(m, n, q) ==                            \* refreshBonusSnapshot7d30d, for one window
  LET days == {i \in DOMAIN m.day : i <= dayIdI32 /\ i > dayIdI32 - n /\ m.day[i].least < SENTINEL} IN
  RangeOf({q} \cup {m.day[i].least : i \in days}, {q} \cup {m.day[i].most : i \in days})
RefreshDays(m, q) ==
  IF m.lastDay = dayIdI32 THEN [m EXCEPT !.week = Widened(@, q), !.month = Widened(@, q)]
  ELSE [m EXCEPT !.week = OverDays(m, WEEK, q), !.month = OverDays(m, MONTH, q), !.lastDay = dayIdI32]
InWindow24 == bucketStart(BUCKET) - WINDOW24 .. bucketStart(BUCKET)
updateSnapshotFromLast24h(m, q) ==
  LET values == {q} \cup {m.sample[b] : b \in DOMAIN m.sample \cap InWindow24}
      full   == m.recomputed # bucketStart(BUCKET)
  IN [RefreshDays(m, q) EXCEPT
        !.at = clock, !.quote = q, !.recomputed = bucketStart(BUCKET),
        !.day24 = IF full THEN RangeOf(values, values) ELSE Widened(@, q)]
Sampled(m, q, end) ==
  updateSnapshotFromLast24h(
    updateDailyBonusQuoteMinMax(maybeCreateBonusSample1h(maybeCreateBonusSample5m(m, q)), q, end), q)

(* LP rewards by the hour, and their rolling total.                        *)
addToLpRewardsSample1h(m, a) ==
  LET h == bucketStart(HOUR) IN
  IF a = 0 THEN m
  ELSE [m EXCEPT !.lpHour = Put(@, h, (IF h \in DOMAIN @ THEN @[h] ELSE 0) + a)]
WindowHours(h) == {h - i * HOUR : i \in 0 .. DAYHOURS - 1}
SumHours(map, hours) == FoldLeft(LAMBDA sum, h : sum + map[h], 0, SetToSeq(DOMAIN map \cap hours))
PruneInWindowMutant(m) ==
  LET h == bucketStart(HOUR) IN
  [m EXCEPT !.lp24 = SumHours(m.lpHour, WindowHours(h)), !.lp24At = clock,
            !.lpHour = Without(@, {h - HOUR * j : j \in 1..3})]
refreshLpRewards24h(m) ==
  LET h == bucketStart(HOUR) IN
  [m EXCEPT !.lp24 = SumHours(m.lpHour, WindowHours(h)), !.lp24At = clock,
            !.lpHour = Without(@, {h - (WINDOW24 + HOUR * j) : j \in 1..3})]

-----------------------------------------------------------------------------
(* A bonus is known in full only once its transaction says what reached    *)
(* the lock: until then it waits in a queue of its transaction and user.   *)
SameQueue(p, e) == p.tx = e.tx /\ p.u = e.u
SettleLastMutant(m, e) ==
  LET d == [DayOf(m) EXCEPT !.user = @ + e.user]
      is == {i \in DOMAIN m.pending : SameQueue(m.pending[i], e)}
  IN IF is = {} THEN PutDay(m, d)
     ELSE LET i == Min(is) IN
          [PutDay(m, [d EXCEPT !.end = m.pending[i].after]) EXCEPT
             !.reserve = m.pending[i].after, !.pending = RemoveAt(@, i)]
settleDeliveredUserBonus(m, e) ==
  LET d == [DayOf(m) EXCEPT !.user = @ + e.user]
      is == {i \in DOMAIN m.pending : SameQueue(m.pending[i], e)}
  IN IF is = {} THEN PutDay(m, d)
     ELSE LET i == Min(is)
              final == m.pending[i].after + Over(m.pending[i].user, e.user)
          IN [PutDay(m, [d EXCEPT !.end = final]) EXCEPT
                !.reserve = final, !.pending = RemoveAt(@, i)]

recordPendingBonusPaid(m, e) ==
  [m EXCEPT !.pending = Append(@, [tx |-> e.tx, u |-> e.u, user |-> e.user, after |-> e.after])]
handleBonusPaid(m, e) ==
  LET x == Sampled(m, e.quote, e.after)
      y == PutDay(x, [DayOf(x) EXCEPT !.lp = @ + e.lp, !.end = e.after])
      z == [recordPendingBonusPaid(y, e) EXCEPT !.reserve = e.after]
  IN refreshLpRewards24h(addToLpRewardsSample1h(z, e.lp))
handleLpOverflowDripPaid(m, e) ==
  LET x == PutDay(m, [DayOf(m) EXCEPT !.lp = @ + e.a, !.end = e.after])
      y == refreshLpRewards24h(addToLpRewardsSample1h([x EXCEPT !.reserve = e.after], e.a))
  IN Sampled(y, Quote(furnace.reserve), e.after)
handleLockSoldToFurnace(m, e) ==
  LET x == refreshLpRewards24h(addToLpRewardsSample1h([m EXCEPT !.reserve = furnace.reserve], e.lp))
      y == PutDay(x, [DayOf(x) EXCEPT !.lp = @ + e.lp, !.end = furnace.reserve])
  IN Sampled(y, Quote(furnace.reserve), furnace.reserve)
handleFurnaceEnter(m, e)          == settleDeliveredUserBonus(m, e)
handleFurnaceMergeWithBonus(m, e) == settleDeliveredUserBonus(m, e)
handleAutoMaxBonusClaimed(m, e)   == settleDeliveredUserBonus(m, e)
handleLpRewardsVaultSet(m, e)     == [m EXCEPT !.vault = e.v]
handleLpStreamFunded(m, e)        == [m EXCEPT !.rate = e.rate, !.finish = e.finish]
ReserveIs(m, e) ==
  Sampled(PutDay([m EXCEPT !.reserve = e.after], [DayOf(m) EXCEPT !.end = e.after]),
          Quote(furnace.reserve), e.after)
handleReserveClamped(m, e)  == ReserveIs(m, e)
handleReserveCredited(m, e) == ReserveIs(m, e)

HandleFurnace(m, e) ==
  CASE e.k = "BonusPaid"             -> handleBonusPaid(m, e)
    [] e.k = "LpOverflowDripPaid"    -> handleLpOverflowDripPaid(m, e)
    [] e.k = "LockSoldToFurnace"     -> handleLockSoldToFurnace(m, e)
    [] e.k = "FurnaceEnter"          -> handleFurnaceEnter(m, e)
    [] e.k = "FurnaceMergeWithBonus" -> handleFurnaceMergeWithBonus(m, e)
    [] e.k = "AutoMaxBonusClaimed"   -> handleAutoMaxBonusClaimed(m, e)
    [] e.k = "LpRewardsVaultSet"     -> handleLpRewardsVaultSet(m, e)
    [] e.k = "LpStreamFunded"        -> handleLpStreamFunded(m, e)
    [] e.k = "ReserveClamped"        -> handleReserveClamped(m, e)
    [] e.k = "ReserveCredited"       -> handleReserveCredited(m, e)

(* The block handler: the hour's first sample refreshes the rolling total. *)
handleFurnaceBlock(m) ==
  LET q == Quote(furnace.reserve)
      x == maybeCreateBonusSample5m(m, q)
      y == IF bucketStart(HOUR) \in m.hourSeen THEN x ELSE refreshLpRewards24h(maybeCreateBonusSample1h(x))
  IN updateSnapshotFromLast24h(updateDailyBonusQuoteMinMax(y, q, furnace.reserve), q)

IndexFurnace == mirror' = handleFurnaceBlock(FoldLeft(HandleFurnace, mirror, furnace.log))
SubgraphFurnaceInit == FurnaceInit /\ mirror = EmptyMirror
SubgraphFurnaceNext ==
  \/ NextBlock /\ IndexFurnace
  \/ FurnaceCall /\ UNCHANGED mirror
SubgraphFurnaceSpec == SubgraphFurnaceInit /\ [][SubgraphFurnaceNext]_mirrorVars

-----------------------------------------------------------------------------
CaughtUp == furnace.log = <<>> /\ mirror.at # 0
LastDay == mirror.at \div DAY
LastHour == mirror.at - (mirror.at % HOUR)

(* After a block the mirror shows the Furnace's reserve, stream and vault, *)
(* though no event of a refund carries the reserve and a sale's event      *)
(* comes before its effect.                                                *)
SameFurnace ==
  /\ mirror.reserve = furnace.reserve /\ mirror.day[LastDay].end = furnace.reserve
  /\ mirror.vault = furnace.vault
  /\ furnace.rate # 0 => mirror.rate = furnace.rate /\ mirror.finish = furnace.finish

(* The days add up to what reached users and what was promised to LPs; no  *)
(* bonus waits past its transaction.                                       *)
SumDays(f) == FoldLeft(LAMBDA sum, i : sum + f[i], 0, SetToSeq(DOMAIN f))
TotalsAreDelivered ==
  /\ mirror.pending = <<>>
  /\ SumDays([i \in DOMAIN mirror.day |-> mirror.day[i].user]) = furnace.delivered
  /\ SumDays([i \in DOMAIN mirror.day |-> mirror.day[i].lp])
       = FoldLeft(LAMBDA sum, v : sum + furnace.funded[v], 0, SetToSeq(Vaults))

(* The ranges nest, and the long ones are those of the days they cover.    *)
Within(r, s) == s.least <= r.least /\ r.most <= s.most
DaysIn(n) == {i \in DOMAIN mirror.day : i <= LastDay /\ i > LastDay - n}
IsRangeOf(r, days) == r.least = Min({mirror.day[i].least : i \in days})
                      /\ r.most = Max({mirror.day[i].most : i \in days})
RangesAreRight ==
  /\ Within([least |-> mirror.quote, most |-> mirror.quote], mirror.day24)
  /\ Within(mirror.week, mirror.month)
  /\ IsRangeOf(mirror.week, DaysIn(WEEK)) /\ IsRangeOf(mirror.month, DaysIn(MONTH))
  /\ \A b \in DOMAIN mirror.sample : b >= mirror.recomputed - WINDOW24 =>
       Within([least |-> mirror.sample[b], most |-> mirror.sample[b]], mirror.day24)

(* The rolling total is that of its last refresh, and no reward of the     *)
(* window has been pruned.                                                 *)
RollingTotalIsKept ==
  mirror.lp24 = SumHours(mirror.lpHour, WindowHours(mirror.lp24At - (mirror.lp24At % HOUR)))

MirrorsTheFurnace ==
  CaughtUp => SameFurnace /\ TotalsAreDelivered /\ RangesAreRight /\ RollingTotalIsKept

(* "Rolling 24h LP rewards totals (CLAIM wei), computed from 1h buckets"   *)
(* (subgraph-schema-v1.0.0.md:805).                                        *)
RollingTotalIsCurrent == CaughtUp => mirror.lp24 = SumHours(mirror.lpHour, WindowHours(LastHour))
=============================================================================
