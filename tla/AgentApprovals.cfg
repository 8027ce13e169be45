SPECIFICATION ExecSpec
CONSTANTS
  Kinds = {"listLock", "sellLockToFurnace", "sellListedLockToFurnace"}
  Manifest = {"MarketRouter", "VeClaimNFT"}
  MaxOff = 1
  MaxChanges = 0
  MaxNodeFaults = 0
PROPERTY ListingsGoThrough
CHECK_DEADLOCK FALSE
