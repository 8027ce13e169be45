SPECIFICATION DutiesSpec
CONSTANTS
  Keepers = {k1, k2}
  NoOwner = NoOwner
  NoFile = NoFile
  TTL = 2
  HEARTBEAT = 1
  MaxCrashes = 2
  MaxStalls = 1
  USERS = 3
  LOOKAHEAD = 2
  MAXUSERS = 1
  CADENCE = 3
  RETRY = 1
  MaxRewardFaults = 2
  REWIND = 1
  MINDELTA = 2
  MaxReigns = 3
  MaxPending = 3
  MaxPokeFaults = 1
  OWNERS = 3
  OWNED = {1, 2, 4}
  MAXLOCKS = 3
  BATCH = 2
  BONUSEVERY = 2
  OWNERCOOL = 1
  MAXOWNERS = 2
  WINDOW = 3
  CHECKCOOL = 6
  MaxLockFaults = 2
  ITEMS = 3
  MAXITEMS = 1
  INITIAL = 1
  MAXBACKOFF = 2
  SWEEPEVERY = 1
  MaxMoves = 1
  MaxMarketFaults = 1
INVARIANTS HostLockExcludes RetiredReignsAreFlushed CheckpointedBeforeExpiry
PROPERTIES SplitBrainHeals NobodyIsLeftOut StoppedKeepTheirPlace
CHECK_DEADLOCK FALSE
