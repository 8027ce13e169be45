SPECIFICATION ExchangeSpec
CONSTANTS
  u1 = u1
  t1 = t1
  t2 = t2
  o1 = o1
  Users = {u1, u2}
  Locks = {t1, t2, t3}
  Offers = {o1, o2}
  Owner = u1
  Amounts = {1}
  Durations = {2}
  Ttls = {1}
  Budgets = {2}
  Bonus = 1
  MINLOCK = 1
  MAXLOCK = 2
  MAXTTL = 2
  GRACE = 1
  EMERGENCYAGE = 1
  MaxTime = 4
  MaxAmount = 3
  MaxCalls = 3
  MaxRewires = 2
  LateStarts = {FALSE}
  Listed = {{t1}}
  v1 = v1
  Holders = {h1}
  Vaults = {v1, v2}
  NoVault = NoVault
  STREAMWINDOW = 2
  TARGET = 2
  DRIP = 1
  MINTOPUP = 2
  DAY = 2
  SALECAP = 1
  REWIREDELAY = 1
  Credits = {0, 2}
  Bonuses <- MCBonuses
  Sales <- MCSales
  Gaps = {1, 2}
  BUCKET = 1
  HOUR = 1
  DAYHOURS = 2
  WEEK = 1
  MONTH = 2
  FirstCredit = 4
  FirstFunds = {3}
  Horizon = 6
  MaxTouches = 2
  MaxReserve = 12
  MaxGifts = 1
  Kings = {k1, k2}
  Bot = Bot
  Nobody = Nobody
  Perms = {{}, {"takeover", "route"}, {"takeover", "recipients"}}
  Price = 4
  Share = 1
  Outcomes <- ThroneOutcomes
  Histories = {FALSE, TRUE}
  MaxThroneCalls = 4
  AprHours = 2
  ANNUAL = 10
  AprHorizon = 5
  MaxFlows = 3
  Flows = {2}
  Stocks = {1, 2}
  Prices = {1, 2}
INVARIANTS BooksAreKept ListedLocksComeBack FurnaceIsBacked MirrorsTheExchange MirrorsThroneAndYields
CHECK_DEADLOCK FALSE
