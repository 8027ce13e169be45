SPECIFICATION SidesSpec
CONSTANTS
  NoOne = NoOne
  alice = alice
  bob = bob
  Accounts = {alice, bob}
  Sessions <- BotSessions
  MaxLocks = 1
  TAKEOVER_PRICE_FLOOR = 5
  TAKEOVER_DECAY_PERIOD = 2
  EMISSION_START = 1
  EMISSION_DECAY_PERIOD = 3
  KING_EMISSION_LAUNCH_RATE = 3
  KING_EMISSION_FLOOR = 1
  FURNACE_EMISSION_LAUNCH_RATE = 1
  FURNACE_EMISSION_FLOOR = 1
  KING_ETH_SHARE_PCT = 75
  KING_ETH_SHARE_DENOM = 100
  TAKEOVER_WINDOW_LEN = 2
  KING_LIQUID_SHARE_MAX_BPS = 5000
  GENESIS_ACCRUAL_DURATION = 1
  RETRY_CADENCE = 2
  Unreliable = {"lock"}
  Overpayments = {0}
  Guardians = {"owner", "launchController"}
  Recipients = {alice}
  ForcedEth = {}
  DonatedClaim = {1}
  MaxTime = 3
  MaxReigns = 3
  Amounts = {0, 1, 2, 3, 4, 5, 6, 7, 8, 9, 10, 20}
INVARIANTS EthBacked ClaimBacked AccrualCountsOpenTime WindowIsRecentTakeovers ThroneNeverBricked
CHECK_DEADLOCK FALSE
PROPERTY ImplementsThroneLedger
