SPECIFICATION ClientsSpec
CONSTANTS
  Scanners = {"shareholders", "lp", "automax", "expiring", "offers", "listings"}
  Ids = {a}
  Runs = {r1, r2}
  OVERLAP = 1
  CHUNK = 2
  MaxBlocks = 3
  MaxReorgs = 1
  MaxScanFaults = 1
  Writes = {w1, w2}
  MAXATTEMPTS = 2
  Policies = {TRUE, FALSE}
  MaxForeign = 1
  MaxTxFaults = 1
  Watchers = {s1, s2}
  Events <- MCEvents
  Backfills = {FALSE}
  REWIND = 1
  MAXKEYS = 3
  LIMIT = 2
  MAXDEPTH = 3
  MaxStreamBlocks = 3
  MaxForks = 1
  MaxCrashes = 1
  MaxReadFaults = 1
  MaxStreamTroubles = 2
  Kinds <- AllKinds
  Manifest = {"MarketRouter", "VeClaimNFT", "ClaimToken", "FurnaceQuoter", "DelegationHub", "ClaimAllHelper"}
  MaxOff = 2
  MaxChanges = 1
  MaxNodeFaults = 1
  Setups <- MCSetups
  Situations <- MCSituations
  TICK = 1
  COOLDOWN = 1
  BASEREST = 1
  MAXREST = 2
  FACTOR = 2
  MAXTIMEOUTS = 1
  MAXERRORS = 2
  RESETAFTER = 2
  MAXPLANNED = 3
  MaxMishaps = 2
INVARIANTS ReportsAreTrue PlainWritesAreMinedOnce
PROPERTIES NothingStaysMissed EventsAreHandledOnce BlockedMeansRefused LoopIsPatient ClientsGoOn
CHECK_DEADLOCK FALSE
