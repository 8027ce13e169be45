SPECIFICATION Spec
CONSTANTS
  NoLock = NoLock
  Users = {alice, bob}
  Tokens = {lock1, lock2}
  SHAREHOLDER_WEIGHT_SCALE = 2
  MIN_LOCK_DURATION = 1
  MAX_LOCK_DURATION = 1
  LockAmounts = {1}
  TopUps = {}
  MaxLockAmount = 1
  SHAREHOLDER_ACC = 4
  MAX_REWARD_CHECKPOINTS = 1
  MAX_OVERFLOW_CHECKPOINTS = 2
  MIN_VE_FLUSH = 2
  UINT40_MAX = 20
  Drifts = {0}
  Freshness = {TRUE}
  Allocations = {2}
  Raises = {3}
  ForcedEth = {}
  MaxTime = 3
  MaxTakeovers = 4
  MaxLockChanges = 2
INVARIANTS WatermarkCoversLocks AccrualIsExact
SYMMETRY Symmetry
CHECK_DEADLOCK FALSE
