SPECIFICATION LockSpec
CONSTANTS
  NoOne = NoOne
  Accounts = {alice, bob}
  Sessions = {}
  MaxLocks = 3
  TAKEOVER_PRICE_FLOOR = 5
  TAKEOVER_DECAY_PERIOD = 2
  EMISSION_START = 1
  EMISSION_DECAY_PERIOD = 3
  KING_EMISSION_LAUNCH_RATE = 3
  KING_EMISSION_FLOOR = 1
  FURNACE_EMISSION_LAUNCH_RATE = 1
  FURNACE_EMISSION_FLOOR = 1
PROPERTY UnusableSelectionFallsBackToPin
