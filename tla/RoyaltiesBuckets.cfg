SPECIFICATION Spec
CONSTANTS
  NoLock = NoLock
  Users = {alice, bob}
  Tokens = {lock1, lock2}
  SHAREHOLDER_WEIGHT_SCALE = 3
  MIN_LOCK_DURATION = 1
  MAX_LOCK_DURATION = 2
  LockAmounts = {1}
  TopUps = {1}
  MaxLockAmount = 2
  SHAREHOLDER_ACC = 4
  MAX_REWARD_CHECKPOINTS = 1
  MAX_OVERFLOW_CHECKPOINTS = 2
  MIN_VE_FLUSH = 2
  UINT40_MAX = 20
  Drifts = {0, 1}
  Freshness = {TRUE, FALSE}
  Allocations = {2}
  Raises = {}
  ForcedEth = {1}
  MaxTime = 2
  MaxTakeovers = 2
  MaxLockChanges = 2
INVARIANTS BucketsPartitionBalance IndexedCoversAccrual
SYMMETRY Symmetry
CHECK_DEADLOCK FALSE
