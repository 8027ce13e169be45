SPECIFICATION ContractSpec
CONSTANTS
  NoOne = NoOne
  TAKEOVER_PRICE_FLOOR = 4
  TAKEOVER_DECAY_PERIOD = 2
  EMISSION_START = 1
  EMISSION_DECAY_PERIOD = 10
  KING_EMISSION_LAUNCH_RATE = 9
  KING_EMISSION_FLOOR = 2
  FURNACE_EMISSION_LAUNCH_RATE = 5
  FURNACE_EMISSION_FLOOR = 1
  LastSecond = 13
  TickSizes = {1, 2}
  Accounts = {alice, bob}
  Sessions = {}
  MaxLocks = 3
  Users = {ursula, victor}
  ACC = 12
  INDEX_MAX = 150
  MIN_UNBOND_AMOUNT = 2
  MAX_UNBONDS_PER_USER = 2
  UNBONDING_PERIOD = 1
  MIN_COMPOUND_INTERVAL = 1
  Amounts = {2, 3}
  Transfers = {12}
  LP_SUPPLY = 15
  DUE_SCALE = 60
  ROUNDING = 1
  MaxTime = 3
  MaxTransactions = 5
  MaxReceived = 25
INVARIANTS EmissionIsExact PinsAreRouteLocks ClaimCovered RewardsFollowStake ExitsPaidOnTime OnlyFeesCountAsFees
PROPERTIES DefaultRouteReusesItsLock ClaimPaysWhatIsShown
SYMMETRY Symmetry
CHECK_DEADLOCK FALSE
